---------------------------- MODULE Spec2Model ----------------------------
(***************************************************************************)
(* Adyx: a two-party end-to-end-encrypted ephemeral messaging channel.     *)
(*                                                                         *)
(*   - the client cipher layer (client/src/lib/crypto.js, v2.0 section,    *)
(*     lines 1-341): key cache, encrypt/decrypt, nonce window, wipe;       *)
(*   - the relay (server/index.js): HTTP admission (create/join room),     *)
(*     socket admission, message routing, close handling, sweeps.          *)
(*                                                                         *)
(* Cryptographic primitives are ideal: PBKDF2 is an injective function of  *)
(* (secret, salt, purpose); an AES-GCM ciphertext opens only under the key *)
(* and IV that made it; an HMAC verifies only under the key and data that  *)
(* made it; crypto.getRandomValues never repeats a value.                  *)
(***************************************************************************)
EXTENDS Integers, Sequences, FiniteSets, TLC

(***************************************************************************)
(* Bounds of the model.                                                    *)
(***************************************************************************)
MaxEnc == 2          \* encrypt calls in one behaviour (key and tamper checks)
MaxReplayEnc == 3    \* encrypt/encryptBinary calls in one behaviour (replay checks)
MaxTicks == 1        \* clock advances in one behaviour of the cipher layer

(***************************************************************************)
(* Program constants.                                                      *)
(***************************************************************************)
STALE_MS == 300000           \* 5 * 60 * 1000, crypto.js:205

(***************************************************************************)
(* The nonce window's ceiling (10000, crypto.js:20) and eviction batch     *)
(* (1000, crypto.js:116), scaled down so that a behaviour of MaxReplayEnc  *)
(* messages fills the window and evicts.                                   *)
(***************************************************************************)
MAX_NONCE_HISTORY == 2
EVICT_BATCH == 1

T0 == 1000000                \* Date.now() when the model starts

Ctx == {"alice", "bob"}                      \* one crypto.js module instance per client
Pairs == { <<"ROOM01", "abc123">>, <<"ROOM01", "def456">> }   \* (secret, salt)
Plaintexts == {"hello", ""}
TickSteps == {STALE_MS, STALE_MS + 1}

VARIABLES
    cipher,     \* per context: the module-level state of crypto.js (lines 14-19)
    wire,       \* fragments produced by encrypt/encryptBinary, as seen on the channel
    encSeq,     \* number of encryptions so far: the source of fresh IVs and nonces
    cres,       \* the last cipher call and what it returned or threw
    accepted,   \* per context: the nonces that passed the replay check since the last wipe
    now,        \* Date.now()
    ticks,      \* clock advances so far
    rooms,      \* the relay's room registry: room key -> room
    rateLimits, \* create-room rate limiter: ip -> {count, resetAt}
    joinAttempts, \* join-room rate limiter: ip -> {count, resetAt}
    bruteForce, \* failed-join record: ip -> {failures, lockedUntil}
    pending,    \* HTTP requests suspended at an await: request id -> request
    reqSeq,     \* HTTP requests received so far
    hres,       \* the last HTTP response sent
    failedJoins, \* per ip: failed join responses sent, and when the last one was
    sock,       \* the relay's sockets: socket id -> socket
    sockSeq,    \* connections received so far
    ipConnections, \* admitted connections per ip
    timers,     \* pending empty-room timers
    sent,       \* frames the relay sent in the last step
    last,       \* the last relay event
    ws,         \* client transport: the current WebSocket, or null
    wsocks,     \* client transport: the sockets that can still deliver an event
    reconnectTimer, \* client transport: the timer id kept in reconnectTimer
    pingInterval,   \* client transport: the interval id kept in pingInterval
    canaryInterval, \* client transport: the interval id kept in canaryInterval
    reconnectAttempts, \* client transport: reconnects since the last open
    connectionHealth,  \* client transport: connected, reconnecting, disconnected, error
    listeners,  \* client transport: whether listeners.onMessage is set
    pendingTimers, \* client transport: timers and intervals the runtime will still fire
    lastPongAt, \* client transport: when the last pong or canary_ack arrived
    notified,   \* client transport: what the message listener received in the last step
    clast       \* client transport: the last transport event

cvars == <<cipher, wire, encSeq, cres, accepted>>
tvars == <<now, ticks>>
hvars == <<rateLimits, joinAttempts, bruteForce, pending, reqSeq, hres, failedJoins>>
rstate == <<sock, sockSeq, ipConnections, timers>>
rvars == <<rstate, sent, last>>
svars == <<rooms, hvars, rstate>>
xvars == <<ws, wsocks, reconnectTimer, pingInterval, canaryInterval, reconnectAttempts,
           connectionHealth, listeners, pendingTimers, lastPongAt, notified, clast>>
vars == <<cipher, wire, encSeq, cres, accepted, now, ticks, rooms,
          rateLimits, joinAttempts, bruteForce, pending, reqSeq, hres, failedJoins,
          sock, sockSeq, ipConnections, timers, sent, last,
          ws, wsocks, reconnectTimer, pingInterval, canaryInterval, reconnectAttempts,
          connectionHealth, listeners, pendingTimers, lastPongAt, notified, clast>>

(***************************************************************************)
(* Values.                                                                 *)
(***************************************************************************)
NULL == "<null>"

Absent == "<undefined>"
NoSocket == 0

\* a JSON value of a frame field whose type the relay tests: a number, a
\* string, a boolean, or no value
Num(n) == [kind |-> "number", num |-> n, str |-> ""]
Str(v) == [kind |-> "string", num |-> 0, str |-> v]
Bool(b) == [kind |-> "boolean", num |-> IF b THEN 1 ELSE 0, str |-> ""]
NoArg == [kind |-> "undefined", num |-> 0, str |-> ""]

\* !!v
ToBoolean(v) ==
    CASE v.kind = "number" -> v.num # 0
      [] v.kind = "string" -> v.str # ""
      [] v.kind = "boolean" -> v.num = 1
      [] OTHER -> FALSE

\* an inbound frame, parsed.  arg is the one field a frame has besides
\* these: t of ping, seconds of disappear_mode, alertType of security_alert,
\* isTyping of typing, emoji of reaction (whose msgId is id).
Msg(type, id, ciphertext, iv, hmac, nonce) ==
    [type |-> type, id |-> id, ciphertext |-> ciphertext, iv |-> iv, hmac |-> hmac, nonce |-> nonce,
     arg |-> NoArg]
MsgArg(type, id, arg) ==
    [Msg(type, id, Absent, Absent, Absent, Absent) EXCEPT !.arg = arg]
NoMsg == Msg(Absent, Absent, Absent, Absent, Absent, Absent)

\* the socket event the relay handled in the last step
Event(op, s, code, msg) == [op |-> op, s |-> s, code |-> code, msg |-> msg]
NoEvent == Event("none", NoSocket, 0, NoMsg)

\* a step in which the relay handles no socket event: it sends nothing
Quiet == sent' = <<>> /\ last' = NoEvent
NoKey == [use |-> "none", secret |-> NULL, salt |-> NULL]

\* crypto.subtle.deriveKey(PBKDF2, ...) for AES-GCM: lines 38-49
AesKey(roomKey, salt) == [use |-> "aes", secret |-> roomKey, salt |-> salt]

\* crypto.subtle.deriveKey(PBKDF2, ...) for HMAC, domain-separated: lines 69-80
HmacKey(roomKey, salt) == [use |-> "hmac", secret |-> roomKey, salt |-> salt]

\* the inner structure that is encrypted; "bin" is a raw buffer, "str" a decoded string
Envelope(p, n, t, c) == [fmt |-> "env", p |-> p, n |-> n, t |-> t, c |-> c]
Raw(fmt, p) == [fmt |-> fmt, p |-> p, n |-> 0, t |-> 0, c |-> 0]
NoValue == Raw("none", "")

\* crypto.subtle.encrypt({name: 'AES-GCM', iv}, key, bytes), base64-encoded
AesGcmEncrypt(key, iv, pt) == [k |-> key, iv |-> iv, pt |-> pt]
EmptyCt == [k |-> NoKey, iv |-> 0, pt |-> NoValue]           \* '' or undefined
JunkCt == [k |-> NoKey, iv |-> 0, pt |-> Raw("junk", "")]   \* bytes no key opens

\* crypto.subtle.decrypt succeeds exactly under the key and IV of the encryption
AesGcmOpens(key, iv, ct) == ct.k # NoKey /\ ct.k = key /\ ct.iv = iv

\* crypto.subtle.sign('HMAC', key, data), base64-encoded
HmacSign(key, data) == [k |-> key, d |-> data]
NoHmac == [k |-> NoKey, d |-> <<>>]                          \* '' or undefined

\* suspended: the calls of the context that wait at an await of a key derivation
EmptyState == [cachedKey |-> NoKey, cachedHmacKey |-> NoKey,
               cachedRoomKey |-> NULL, cachedSalt |-> NULL,
               messageCounter |-> 0, usedNonces |-> <<>>, suspended |-> {}]

NoCall == [op |-> "none", ctx |-> "none", tam |-> "none", nonce |-> 0,
           out |-> "none", value |-> NoValue]

(***************************************************************************)
(* Key derivation with the module-level cache.  Each operator takes the    *)
(* context's state st and returns the new state and the key.               *)
(***************************************************************************)
deriveKey(st, roomKey, salt) ==
    IF st.cachedKey # NoKey /\ st.cachedRoomKey = roomKey /\ st.cachedSalt = salt
    THEN [st |-> st, key |-> st.cachedKey]
    ELSE [st |-> [st EXCEPT !.cachedKey = AesKey(roomKey, salt),
                            !.cachedRoomKey = roomKey,
                            !.cachedSalt = salt],
          key |-> AesKey(roomKey, salt)]

deriveHmacKey(st, roomKey, salt) ==
    IF st.cachedHmacKey # NoKey /\ st.cachedRoomKey = roomKey
    THEN [st |-> st, key |-> st.cachedHmacKey]
    ELSE [st |-> [st EXCEPT !.cachedHmacKey = HmacKey(roomKey, salt)],
          key |-> HmacKey(roomKey, salt)]

(***************************************************************************)
(* Anti-replay: the nonce window is a Set, which keeps insertion order.    *)
(***************************************************************************)
InSeq(x, s) == \E i \in 1..Len(s) : s[i] = x

\* faulty variant: nothing is ever removed from the window
EvictNothing(s) == s

Evict(s) == IF Len(s) > MAX_NONCE_HISTORY
            THEN SubSeq(s, (IF EVICT_BATCH < Len(s) THEN EVICT_BATCH ELSE Len(s)) + 1, Len(s))
            ELSE s

\* checkNonce: [ok, usedNonces']
\* faulty variant: the nonce is looked up but never added to the window
checkNonceNoRecord(used, nonce) ==
    IF InSeq(nonce, used) THEN [ok |-> FALSE, used |-> used] ELSE [ok |-> TRUE, used |-> used]

checkNonce(used, nonce) ==
    IF InSeq(nonce, used)
    THEN [ok |-> FALSE, used |-> used]
    ELSE [ok |-> TRUE, used |-> Evict(Append(used, nonce))]

(***************************************************************************)
(* Sign / verify.  The signed string is ciphertext ':' iv ':' nonce; the   *)
(* fields are base64 and hold no ':', so the string is the tuple.          *)
(***************************************************************************)
signData(st, data, roomKey, salt) ==
    LET h == deriveHmacKey(st, roomKey, salt)
    IN  [st |-> h.st, sig |-> HmacSign(h.key, data)]

\* faulty variant: the signature is accepted for any data signed with the key
verifySignatureAnyData(st, data, signature, roomKey, salt) ==
    LET h == deriveHmacKey(st, roomKey, salt)
    IN  [st |-> h.st, valid |-> signature.k = h.key]

verifySignature(st, data, signature, roomKey, salt) ==
    LET h == deriveHmacKey(st, roomKey, salt)
    IN  [st |-> h.st, valid |-> (signature.k = h.key /\ signature.d = data)]

VerifyData(ciphertext, iv, nonce) ==
    IF nonce # 0 THEN <<ciphertext, iv, nonce>> ELSE <<ciphertext, iv>>

(***************************************************************************)
(* encrypt / encryptBinary as functions of the context state.              *)
(***************************************************************************)
encrypt(st, plaintext, roomKey, salt, iv, nonce, t) ==
    LET k == deriveKey(st, roomKey, salt)
        counter == k.st.messageCounter + 1
        st1 == [k.st EXCEPT !.messageCounter = counter]
        ciphertext == AesGcmEncrypt(k.key, iv, Envelope(plaintext, nonce, t, counter))
        s == signData(st1, <<ciphertext, iv, nonce>>, roomKey, salt)
    IN  [st |-> s.st,
         frag |-> [ciphertext |-> ciphertext, iv |-> iv, hmac |-> s.sig, nonce |-> nonce]]

encryptBinary(st, data, roomKey, salt, iv, nonce) ==
    LET k == deriveKey(st, roomKey, salt)
        ciphertext == AesGcmEncrypt(k.key, iv, Raw("bin", data))
        s == signData(k.st, <<ciphertext, iv, nonce>>, roomKey, salt)
    IN  [st |-> s.st,
         frag |-> [ciphertext |-> ciphertext, iv |-> iv, hmac |-> s.sig, nonce |-> nonce]]

(***************************************************************************)
(* decrypt / decryptBinary: [st, out, value].  out is "ok" or the error.   *)
(***************************************************************************)
\* lines 198-215: parse the envelope, check its age, else the legacy fallback
\* faulty variant: the catch block swallows the expiry error and falls back
ParseEnvelopeNoExpiry(pt, t) == [out |-> "ok", value |-> Raw("str", pt.p)]

ParseEnvelope(pt, t) ==
    IF pt.fmt = "env"
    THEN IF pt.t # 0 /\ t - pt.t > STALE_MS
         THEN [out |-> "EXPIRED", value |-> NoValue]
         ELSE [out |-> "ok", value |-> Raw("str", pt.p)]
    ELSE [out |-> "ok", value |-> Raw("str", pt.p)]

\* faulty variant: the nonce is examined, and recorded, before the signature
OpenFragmentNonceFirst(st, f, roomKey, salt) ==
    LET n == IF f.nonce # 0
             THEN checkNonce(st.usedNonces, f.nonce)
             ELSE [ok |-> TRUE, used |-> st.usedNonces]
        st1 == [st EXCEPT !.usedNonces = n.used]
        v == IF f.hmac # NoHmac
             THEN verifySignature(st1, VerifyData(f.ciphertext, f.iv, f.nonce),
                                  f.hmac, roomKey, salt)
             ELSE [st |-> st1, valid |-> TRUE]
        k == deriveKey(v.st, roomKey, salt)
    IN  IF ~n.ok THEN [st |-> st, out |-> "REPLAY", pt |-> NoValue]
        ELSE IF ~v.valid THEN [st |-> v.st, out |-> "INTEGRITY", pt |-> NoValue]
        ELSE IF ~AesGcmOpens(k.key, f.iv, f.ciphertext)
             THEN [st |-> k.st, out |-> "DECRYPT_FAILED", pt |-> NoValue]
        ELSE [st |-> k.st, out |-> "ok", pt |-> f.ciphertext.pt]

\* lines 178-196 and 241-258: signature, then nonce, then AES-GCM
OpenFragment(st, f, roomKey, salt) ==
    LET v == IF f.hmac # NoHmac
             THEN verifySignature(st, VerifyData(f.ciphertext, f.iv, f.nonce),
                                  f.hmac, roomKey, salt)
             ELSE [st |-> st, valid |-> TRUE]
        n == IF f.nonce # 0
             THEN checkNonce(v.st.usedNonces, f.nonce)
             ELSE [ok |-> TRUE, used |-> v.st.usedNonces]
        st2 == [v.st EXCEPT !.usedNonces = n.used]
        k == deriveKey(st2, roomKey, salt)
    IN  IF ~v.valid THEN [st |-> v.st, out |-> "INTEGRITY", pt |-> NoValue]
        ELSE IF ~n.ok THEN [st |-> v.st, out |-> "REPLAY", pt |-> NoValue]
        ELSE IF ~AesGcmOpens(k.key, f.iv, f.ciphertext)
             THEN [st |-> k.st, out |-> "DECRYPT_FAILED", pt |-> NoValue]
        ELSE [st |-> k.st, out |-> "ok", pt |-> f.ciphertext.pt]

decrypt(st, f, roomKey, salt, t) ==
    LET o == OpenFragment(st, f, roomKey, salt)
        e == ParseEnvelope(o.pt, t)
    IN  IF o.out # "ok" THEN [st |-> o.st, out |-> o.out, value |-> NoValue]
        ELSE [st |-> o.st, out |-> e.out, value |-> e.value]

decryptBinary(st, f, roomKey, salt) ==
    LET o == OpenFragment(st, f, roomKey, salt)
    IN  [st |-> o.st, out |-> o.out, value |-> o.pt]

\* what lines 276-278 and 283-285 leave in a cached string: random characters
Overwritten == "<random>"

\* faulty variant: the nonce window is not cleared
wipeKeysKeepNonces(st) ==
    [st EXCEPT !.cachedKey = NoKey, !.cachedHmacKey = NoKey,
               !.cachedRoomKey = NULL, !.cachedSalt = NULL, !.messageCounter = 0]

\* wipeKeys, lines 272-294: the cached strings are overwritten when they are
\* set (an exception of the overwrite is caught and leaves the string), then
\* every variable is reset
wipeKeys(st) ==
    LET s1 == IF st.cachedRoomKey # NULL THEN [st EXCEPT !.cachedRoomKey = Overwritten] ELSE st
        s2 == IF s1.cachedSalt # NULL THEN [s1 EXCEPT !.cachedSalt = Overwritten] ELSE s1
    IN  [s2 EXCEPT !.cachedKey = NoKey, !.cachedHmacKey = NoKey,
                   !.cachedRoomKey = NULL, !.cachedSalt = NULL,
                   !.messageCounter = 0, !.usedNonces = <<>>]

(***************************************************************************)
(* What a party on the channel can do to a fragment before it is handed to *)
(* decrypt.                                                                *)
(***************************************************************************)
Tampers == {"none", "ct_junk", "ct_empty", "ct_other", "iv_flip", "iv_empty",
            "nonce_flip", "nonce_empty", "no_hmac", "stripped"}
OneFieldTampers == {"ct_junk", "ct_empty", "ct_other", "iv_flip", "iv_empty",
                    "nonce_flip", "nonce_empty"}

OtherCt(i) == IF Len(wire) > 1 THEN wire[(i % Len(wire)) + 1].ciphertext ELSE JunkCt

Tamper(i, tam) ==
    LET f == wire[i] IN
    CASE tam = "none" -> f
      [] tam = "ct_junk" -> [f EXCEPT !.ciphertext = JunkCt]
      [] tam = "ct_empty" -> [f EXCEPT !.ciphertext = EmptyCt]
      [] tam = "ct_other" -> [f EXCEPT !.ciphertext = OtherCt(i)]
      [] tam = "iv_flip" -> [f EXCEPT !.iv = f.iv + 100]
      [] tam = "iv_empty" -> [f EXCEPT !.iv = 0]
      [] tam = "nonce_flip" -> [f EXCEPT !.nonce = f.nonce + 100]
      [] tam = "nonce_empty" -> [f EXCEPT !.nonce = 0]
      [] tam = "no_hmac" -> [f EXCEPT !.hmac = NoHmac]
      [] tam = "stripped" -> [f EXCEPT !.hmac = NoHmac, !.nonce = 0]

Call(op, c, tam, nonce, out, value) ==
    [op |-> op, ctx |-> c, tam |-> tam, nonce |-> nonce, out |-> out, value |-> value]

\* a nonce passed the replay check when decrypt got past line 189 / 251
PassedReplayCheck(f, out) == f.nonce # 0 /\ out \notin {"INTEGRITY", "REPLAY"}

\* the log of accepted nonces, most recent last, one entry per nonce
LogAccept(log, nonce, op) ==
    Append(SelectSeq(log, LAMBDA e : e.nonce # nonce), [nonce |-> nonce, op |-> op])

(***************************************************************************)
(* Actions of the cipher layer.  A fresh IV and a fresh nonce are the      *)
(* number of the encryption.                                               *)
(***************************************************************************)
Encrypt(c, P, pair) ==
    /\ LET r == encrypt(cipher[c], P, pair[1], pair[2], encSeq + 1, encSeq + 1, now)
       IN  /\ cipher' = [cipher EXCEPT ![c] = r.st]
           /\ wire' = Append(wire, r.frag)
           /\ cres' = Call("encrypt", c, "none", r.frag.nonce, "ok", Raw("str", P))
    /\ encSeq' = encSeq + 1
    /\ UNCHANGED <<accepted, tvars, xvars, svars>>
    /\ Quiet

EncryptBinary(c, D, pair) ==
    /\ LET r == encryptBinary(cipher[c], D, pair[1], pair[2], encSeq + 1, encSeq + 1)
       IN  /\ cipher' = [cipher EXCEPT ![c] = r.st]
           /\ wire' = Append(wire, r.frag)
           /\ cres' = Call("encryptBinary", c, "none", r.frag.nonce, "ok", Raw("bin", D))
    /\ encSeq' = encSeq + 1
    /\ UNCHANGED <<accepted, tvars, xvars, svars>>
    /\ Quiet

Decrypt(c, i, tam, pair) ==
    /\ i \in 1..Len(wire)
    /\ LET f == Tamper(i, tam)
           r == decrypt(cipher[c], f, pair[1], pair[2], now)
       IN  /\ cipher' = [cipher EXCEPT ![c] = r.st]
           /\ cres' = Call("decrypt", c, tam, f.nonce, r.out, r.value)
           /\ accepted' = IF PassedReplayCheck(f, r.out)
                          THEN [accepted EXCEPT ![c] = LogAccept(@, f.nonce, "decrypt")]
                          ELSE accepted
    /\ UNCHANGED <<wire, encSeq, tvars, xvars, svars>>
    /\ Quiet

DecryptBinary(c, i, tam, pair) ==
    /\ i \in 1..Len(wire)
    /\ LET f == Tamper(i, tam)
           r == decryptBinary(cipher[c], f, pair[1], pair[2])
       IN  /\ cipher' = [cipher EXCEPT ![c] = r.st]
           /\ cres' = Call("decryptBinary", c, tam, f.nonce, r.out, r.value)
           /\ accepted' = IF PassedReplayCheck(f, r.out)
                          THEN [accepted EXCEPT ![c] = LogAccept(@, f.nonce, "decryptBinary")]
                          ELSE accepted
    /\ UNCHANGED <<wire, encSeq, tvars, xvars, svars>>
    /\ Quiet

WipeKeys(c) ==
    /\ cipher' = [cipher EXCEPT ![c] = wipeKeys(cipher[c])]
    /\ cres' = Call("wipeKeys", c, "none", 0, "ok", NoValue)
    /\ accepted' = [accepted EXCEPT ![c] = <<>>]
    /\ UNCHANGED <<wire, encSeq, tvars, xvars, svars>>
    /\ Quiet

(***************************************************************************)
(* The same calls with their awaits.  deriveKey and deriveHmacKey return   *)
(* at once on a cache hit; on a miss they wait for crypto.subtle (lines    *)
(* 30-49, 61-78) and assign the cache when they resume (51-53, 81).  A     *)
(* call is suspended at the first derivation that misses; what follows     *)
(* the resumption runs in one step.                                        *)
(***************************************************************************)
KeyCached(st, roomKey, salt) ==
    st.cachedKey # NoKey /\ st.cachedRoomKey = roomKey /\ st.cachedSalt = salt

HmacKeyCached(st, roomKey) == st.cachedHmacKey # NoKey /\ st.cachedRoomKey = roomKey

Suspended(op, plaintext, i, tam, pair) ==
    [op |-> op, plaintext |-> plaintext, i |-> i, tam |-> tam, pair |-> pair]

Suspend(c, call) ==
    /\ call \notin cipher[c].suspended
    /\ cipher' = [cipher EXCEPT ![c].suspended = @ \cup {call}]
    /\ cres' = Call(call.op, c, call.tam, 0, "pending", NoValue)
    /\ UNCHANGED <<wire, encSeq, accepted, tvars, xvars, svars>>
    /\ Quiet

\* encrypt up to the await inside deriveKey (line 149)
EncryptStart(c, P, pair) ==
    IF KeyCached(cipher[c], pair[1], pair[2])
    THEN Encrypt(c, P, pair)
    ELSE Suspend(c, Suspended("encrypt", P, 0, "none", pair))

\* deriveKey from line 51 and the rest of encrypt
EncryptResume(c, call) ==
    /\ call \in cipher[c].suspended
    /\ call.op = "encrypt"
    /\ LET st1 == [cipher[c] EXCEPT !.cachedKey = AesKey(call.pair[1], call.pair[2]),
                                    !.cachedRoomKey = call.pair[1],
                                    !.cachedSalt = call.pair[2],
                                    !.suspended = @ \ {call}]
           r == encrypt(st1, call.plaintext, call.pair[1], call.pair[2], encSeq + 1, encSeq + 1, now)
       IN  /\ cipher' = [cipher EXCEPT ![c] = r.st]
           /\ wire' = Append(wire, r.frag)
           /\ cres' = Call("encrypt", c, "none", r.frag.nonce, "ok", Raw("str", call.plaintext))
    /\ encSeq' = encSeq + 1
    /\ UNCHANGED <<accepted, tvars, xvars, svars>>
    /\ Quiet

\* decrypt of a signed fragment up to the await inside deriveHmacKey (line 180)
DecryptStart(c, i, tam, pair) ==
    /\ i \in 1..Len(wire)
    /\ IF Tamper(i, tam).hmac = NoHmac \/ HmacKeyCached(cipher[c], pair[1])
       THEN Decrypt(c, i, tam, pair)
       ELSE Suspend(c, Suspended("decrypt", "", i, tam, pair))

\* deriveHmacKey from line 81 and the rest of decrypt
DecryptResume(c, call) ==
    /\ call \in cipher[c].suspended
    /\ call.op = "decrypt"
    /\ LET f == Tamper(call.i, call.tam)
           st1 == [cipher[c] EXCEPT !.cachedHmacKey = HmacKey(call.pair[1], call.pair[2]),
                                    !.suspended = @ \ {call}]
           r == decrypt(st1, f, call.pair[1], call.pair[2], now)
       IN  /\ cipher' = [cipher EXCEPT ![c] = r.st]
           /\ cres' = Call("decrypt", c, call.tam, f.nonce, r.out, r.value)
           /\ accepted' = IF PassedReplayCheck(f, r.out)
                          THEN [accepted EXCEPT ![c] = LogAccept(@, f.nonce, "decrypt")]
                          ELSE accepted
    /\ UNCHANGED <<wire, encSeq, tvars, xvars, svars>>
    /\ Quiet

Tick(d) ==
    /\ \A t \in timers : now + d <= t.at      \* a pending timer fires when it is due
    /\ now' = now + d
    /\ ticks' = ticks + 1
    /\ cres' = NoCall
    /\ UNCHANGED <<cipher, wire, encSeq, accepted, svars, xvars>>
    /\ Quiet

(***************************************************************************)
(* The relay (src/server/index.js).  JavaScript strings are sequences of   *)
(* characters, so that sanitize, toUpperCase and the key format test are   *)
(* computed; undefined and a value that is not a string are two values     *)
(* that are no character sequence.                                         *)
(***************************************************************************)
Undefined == <<"<undefined>">>
NotAString == <<"<number>">>
IsString(v) == v # Undefined /\ v # NotAString
Truthy(v) == v # Undefined /\ v # <<>>

ControlChars == {"\n", "\t"}
Whitespace == {" ", "\n", "\t"}
UpperAlnum == {"A", "B", "C", "D", "E", "F", "G", "H", "I", "J", "K", "L", "M", "N", "O",
               "P", "Q", "R", "S", "T", "U", "V", "W", "X", "Y", "Z",
               "0", "1", "2", "3", "4", "5", "6", "7", "8", "9"}

ToUpperCase(str) ==
    [i \in 1..Len(str) |-> CASE str[i] = "a" -> "A" [] str[i] = "b" -> "B" [] OTHER -> str[i]]

RECURSIVE Trim(_)
Trim(str) ==
    IF str = <<>> THEN str
    ELSE IF Head(str) \in Whitespace THEN Trim(Tail(str))
    ELSE IF str[Len(str)] \in Whitespace THEN Trim(SubSeq(str, 1, Len(str) - 1))
    ELSE str

sanitize(str, maxLen) ==
    IF ~IsString(str) THEN <<>>
    ELSE LET stripped == SelectSeq(str, LAMBDA ch : ch \notin ControlChars)
             trimmed == Trim(stripped)
         IN  SubSeq(trimmed, 1, IF Len(trimmed) < maxLen THEN Len(trimmed) ELSE maxLen)

\* faulty variant: every password has the same digest
hashPasswordConst(password) == <<"sha256">>

hashPassword(password) == <<"sha256">> \o password

KEY_LEN == 6
KeyFormatOk(cleaned) == Len(cleaned) = KEY_LEN /\ \A i \in 1..Len(cleaned) : cleaned[i] \in UpperAlnum

\* a Map: a function whose domain is the set of keys present
MapSet(map, k, v) == [x \in DOMAIN map \cup {k} |-> IF x = k THEN v ELSE map[x]]
MapDelete(map, k) == [x \in DOMAIN map \ {k} |-> map[x]]
EmptyMap == <<>>

checkRateLimit(map, ip, maxRequests, windowMs) ==
    LET entry == IF ip \notin DOMAIN map \/ now > map[ip].resetAt
                 THEN [count |-> 0, resetAt |-> now + windowMs]
                 ELSE map[ip]
        counted == [entry EXCEPT !.count = @ + 1]
    IN  [map |-> MapSet(map, ip, counted), ok |-> counted.count <= maxRequests]

\* faulty variant: no source is ever locked out
checkBruteForceNever(ip) == [bf |-> bruteForce, ok |-> TRUE]

checkBruteForce(ip) ==
    IF ip \notin DOMAIN bruteForce THEN [bf |-> bruteForce, ok |-> TRUE]
    ELSE IF now < bruteForce[ip].lockedUntil THEN [bf |-> bruteForce, ok |-> FALSE]
    ELSE IF now > bruteForce[ip].lockedUntil THEN [bf |-> MapDelete(bruteForce, ip), ok |-> TRUE]
    ELSE [bf |-> bruteForce, ok |-> TRUE]

LOCK_5 == 300000          \* 5 * 60 * 1000
LOCK_10 == 900000         \* 15 * 60 * 1000
LOCK_15 == 1800000        \* 30 * 60 * 1000

\* faulty variant: a failed join leaves no record
recordFailedJoinSkip(bf, ip) == bf

recordFailedJoin(bf, ip) ==
    LET entry == IF ip \in DOMAIN bf THEN bf[ip] ELSE [failures |-> 0, lockedUntil |-> 0]
        f == entry.failures + 1
        locked == IF f >= 15 THEN now + LOCK_15
                  ELSE IF f >= 10 THEN now + LOCK_10
                  ELSE IF f >= 5 THEN now + LOCK_5
                  ELSE entry.lockedUntil
    IN  MapSet(bf, ip, [failures |-> f, lockedUntil |-> locked])

\* the setInterval of lines 122-128
CleanupRateMaps ==
    /\ rateLimits' = [k \in {x \in DOMAIN rateLimits : ~(now > rateLimits[x].resetAt)} |-> rateLimits[k]]
    /\ joinAttempts' = [k \in {x \in DOMAIN joinAttempts : ~(now > joinAttempts[x].resetAt)} |-> joinAttempts[k]]
    /\ bruteForce' = [k \in {x \in DOMAIN bruteForce : ~(now > bruteForce[x].lockedUntil)} |-> bruteForce[k]]
    /\ UNCHANGED <<cvars, tvars, xvars, rooms, pending, reqSeq, hres, failedJoins, rstate>>
    /\ Quiet

chars == <<"A", "B", "C", "D", "E", "F", "G", "H", "J", "K", "L", "M", "N", "P", "Q", "R",
           "S", "T", "U", "V", "W", "X", "Y", "Z", "2", "3", "4", "5", "6", "7", "8", "9">>

generateRoomKey(bytes) == [i \in 1..KEY_LEN |-> chars[(bytes[i] % Len(chars)) + 1]]

\* values crypto.randomBytes(6) may return
RandomBytes == { <<0, 0, 0, 0, 0, 0>>, <<32, 64, 96, 128, 160, 224>>, <<1, 8, 255, 24, 31, 33>> }

MAX_KEY_ATTEMPTS == 100

\* the keys generateRoomKey returns for the byte strings in `bytes`
GeneratedKeys(bytes) == { generateRoomKey(b) : b \in bytes }

\* faulty variant: the first key drawn is used whether or not the registry has it
KeyLoopFirstDraw(reg, attempts, draws) ==
    { [key |-> k, attempts |-> attempts + 1] : k \in draws }

(***************************************************************************)
(* The do-while of line 178 after `attempts` draws, as the set of ways it  *)
(* can end: with a drawn key the registry does not have, after any number  *)
(* of further draws that it has (none, when no draw is in the registry),   *)
(* or with whatever key the draw that uses up the attempts gives.          *)
(***************************************************************************)
KeyLoop(reg, attempts, draws) ==
    LET taken == { d \in draws : d \in reg }
        lastDraw == IF attempts + 1 >= MAX_KEY_ATTEMPTS THEN attempts + 1 ELSE MAX_KEY_ATTEMPTS
        early == IF taken = {} THEN {attempts + 1} ELSE (attempts + 1)..(lastDraw - 1)
    IN  { [key |-> k, attempts |-> n] : k \in draws \ taken, n \in early }
        \cup (IF taken = {} /\ attempts + 1 < MAX_KEY_ATTEMPTS THEN {}
              ELSE { [key |-> k, attempts |-> lastDraw] : k \in draws })

NewRoom(salt, passwordHash) ==
    [admin |-> NoSocket, receiver |-> NoSocket, createdAt |-> now, lastActivity |-> now,
     salt |-> salt, passwordHash |-> passwordHash, messageCount |-> 0,
     fingerprints |-> [admin |-> <<>>, receiver |-> <<>>], disappearMode |-> 0]

NoHash == <<>>

CreatePasswordHash(rawPassword) ==
    IF Truthy(rawPassword) /\ IsString(rawPassword) /\ Len(rawPassword) >= 1
    THEN LET cleaned == sanitize(rawPassword, 128)
         IN  IF Len(cleaned) > 0 THEN hashPassword(cleaned) ELSE NoHash
    ELSE NoHash

Response(op, id, ip, status, body, key, salt) ==
    [op |-> op, id |-> id, ip |-> ip, status |-> status, body |-> body, key |-> key, salt |-> salt]
NoResponse == Response("none", 0, "", 0, "", <<>>, "")

\* a request suspended at an await: what it carries, when it arrived, where it waits
Request(op, ip, key, password, stage, at) ==
    [op |-> op, ip |-> ip, key |-> key, password |-> password, stage |-> stage, at |-> at]

CREATE_MAX == 5
JOIN_MAX == 10
RATE_WINDOW == 60000

\* POST /api/room/create up to the await of line 175
CreateStart(ip, rawPassword) ==
    LET id == reqSeq + 1
        rl == checkRateLimit(rateLimits, ip, CREATE_MAX, RATE_WINDOW)
    IN  /\ reqSeq' = id
        /\ rateLimits' = rl.map
        /\ IF ~rl.ok
           THEN /\ hres' = Response("create", id, ip, 429, "Too many requests", <<>>, "")
                /\ UNCHANGED pending
           ELSE /\ pending' = MapSet(pending, id, Request("create", ip, <<>>, rawPassword, "delay", now))
                /\ UNCHANGED hres
        /\ UNCHANGED <<cvars, tvars, xvars, rooms, joinAttempts, bruteForce, failedJoins, rstate>>
        /\ Quiet

\* POST /api/room/create from line 177 to the response
CreateFinish(id, salt, bytes) ==
    /\ id \in DOMAIN pending
    /\ pending[id].op = "create"
    /\ \E key \in { o.key : o \in KeyLoop(DOMAIN rooms, 0, GeneratedKeys(bytes)) } :
          IF key \in DOMAIN rooms
          THEN /\ hres' = Response("create", id, pending[id].ip, 500, "Unable to generate unique key", <<>>, "")
               /\ UNCHANGED rooms
          ELSE /\ rooms' = MapSet(rooms, key, NewRoom(salt, CreatePasswordHash(pending[id].password)))
               /\ hres' = Response("create", id, pending[id].ip, 200, "ok", key, salt)
    /\ pending' = MapDelete(pending, id)
    /\ UNCHANGED <<cvars, tvars, xvars, rateLimits, joinAttempts, bruteForce, reqSeq, failedJoins, rstate>>
    /\ Quiet

\* the count of failed join responses of an ip, kept up to the last lockout threshold
NoteFailedJoin(ip) ==
    [failedJoins EXCEPT ![ip] = [count |-> IF @.count < 15 THEN @.count + 1 ELSE @.count, at |-> now]]

\* POST /api/room/join up to the await of line 213
JoinStart(ip, key, password) ==
    LET id == reqSeq + 1
        bf == checkBruteForce(ip)
        rl == checkRateLimit(joinAttempts, ip, JOIN_MAX, RATE_WINDOW)
    IN  /\ reqSeq' = id
        /\ IF ~Truthy(key) \/ ~IsString(key)
           THEN /\ hres' = Response("join", id, ip, 400, "Key required", <<>>, "")
                /\ UNCHANGED <<bruteForce, joinAttempts, pending>>
           ELSE IF ~bf.ok
           THEN /\ hres' = Response("join", id, ip, 429, "Too many failed attempts. Locked.", <<>>, "")
                /\ bruteForce' = bf.bf
                /\ UNCHANGED <<joinAttempts, pending>>
           ELSE IF ~rl.ok
           THEN /\ hres' = Response("join", id, ip, 429, "Too many attempts. Slow down.", <<>>, "")
                /\ bruteForce' = bf.bf
                /\ joinAttempts' = rl.map
                /\ UNCHANGED pending
           ELSE /\ bruteForce' = bf.bf
                /\ joinAttempts' = rl.map
                /\ pending' = MapSet(pending, id, Request("join", ip, key, password, "delay", now))
                /\ UNCHANGED hres
        /\ UNCHANGED <<cvars, tvars, xvars, rooms, rateLimits, failedJoins, rstate>>
        /\ Quiet

\* POST /api/room/join from line 215 to the response or to the await after a failure
JoinResume(id) ==
    /\ id \in DOMAIN pending
    /\ pending[id].op = "join"
    /\ pending[id].stage = "delay"
    /\ LET r == pending[id]
           cleaned == ToUpperCase(sanitize(r.key, KEY_LEN))
           fail(status, body) ==
               /\ bruteForce' = recordFailedJoin(bruteForce, r.ip)
               /\ pending' = MapSet(pending, id, [r EXCEPT !.stage = body])
               /\ UNCHANGED <<hres, failedJoins>>
       IN  IF ~KeyFormatOk(cleaned)
           THEN /\ bruteForce' = recordFailedJoin(bruteForce, r.ip)
                /\ hres' = Response("join", id, r.ip, 400, "Invalid key format.", <<>>, "")
                /\ failedJoins' = NoteFailedJoin(r.ip)
                /\ pending' = MapDelete(pending, id)
           ELSE IF cleaned \notin DOMAIN rooms
           THEN fail(404, "Invalid key. No room found.")
           ELSE IF rooms[cleaned].passwordHash # NoHash
                   /\ (~Truthy(r.password) \/ ~IsString(r.password))
           THEN /\ hres' = Response("join", id, r.ip, 401, "Password required.", <<>>, "")
                /\ pending' = MapDelete(pending, id)
                /\ UNCHANGED <<bruteForce, failedJoins>>
           ELSE IF rooms[cleaned].passwordHash # NoHash
                   /\ hashPassword(sanitize(r.password, 128)) # rooms[cleaned].passwordHash
           THEN fail(401, "Incorrect password.")
           ELSE /\ hres' = Response("join", id, r.ip, 200, "ok", cleaned, rooms[cleaned].salt)
                /\ pending' = MapDelete(pending, id)
                /\ UNCHANGED <<bruteForce, failedJoins>>
    /\ UNCHANGED <<cvars, tvars, xvars, rooms, rateLimits, joinAttempts, reqSeq, rstate>>
    /\ Quiet

\* the response after the extra delay of a failed join (lines 224-225, 237-238)
JoinFail(id) ==
    /\ id \in DOMAIN pending
    /\ pending[id].op = "join"
    /\ pending[id].stage # "delay"
    /\ hres' = Response("join", id, pending[id].ip,
                        IF pending[id].stage = "Incorrect password." THEN 401 ELSE 404,
                        pending[id].stage, <<>>, "")
    /\ failedJoins' = NoteFailedJoin(pending[id].ip)
    /\ pending' = MapDelete(pending, id)
    /\ UNCHANGED <<cvars, tvars, xvars, rooms, rateLimits, joinAttempts, bruteForce, reqSeq, rstate>>
    /\ Quiet

(***************************************************************************)
(* The socket side of the relay.  The map holds the admitted sockets (the  *)
(* ones with handlers) from their 'connection' event to their 'close'      *)
(* event; readyState is OPEN (1) or CLOSING (2).  ws.send and ws.close on  *)
(* a socket that is not OPEN do nothing.  code is the close code the peer  *)
(* of the socket will see.  processed lists the times of the frames of the *)
(* socket that went past the rate limiter of line 342.  A socket refused   *)
(* at admission is closed at once, has no handler and leaves no trace but  *)
(* the event.                                                              *)
(***************************************************************************)
Present(v) == v # Absent /\ v # ""

Roles == {"admin", "receiver"}
\* faulty variant: the target is looked up in the sender's own slot
OppositeSame(role) == role

Opposite(role) == IF role = "admin" THEN "receiver" ELSE "admin"

\* faulty variant: the activity stamp of the room is left as it was
TouchedNever(room) == room

\* room.lastActivity = Date.now() (lines 306 and 336)
Touched(room) == [room EXCEPT !.lastActivity = now]

MAX_CONNECTIONS_PER_IP == 3
MSG_RATE_MAX == 30
MSG_RATE_WINDOW == 1000
EMPTY_GRACE_MS == 30000
IDLE_MS == 1800000           \* 30 * 60 * 1000
EMPTY_MS == 3600000          \* 60 * 60 * 1000
HARD_MS == 86400000          \* 24 * 60 * 60 * 1000

Socket(roomKey, role, nickname, ip) ==
    [readyState |-> "OPEN", roomKey |-> roomKey, role |-> role,
     nickname |-> nickname, ip |-> ip, isAlive |-> TRUE, msgTimestamps |-> <<>>, code |-> 0,
     processed |-> <<>>]

IsOpen(sk, t) == t # NoSocket /\ t \in DOMAIN sk /\ sk[t].readyState = "OPEN"

\* faulty variant: close leaves the socket open
CloseNever(sk, t, code) == sk

\* ws.close(code)
Close(sk, t, code) ==
    IF IsOpen(sk, t) THEN [sk EXCEPT ![t].readyState = "CLOSING", ![t].code = code] ELSE sk

\* ws.terminate()
Terminate(sk, t) ==
    [sk EXCEPT ![t].readyState = "CLOSING", ![t].code = IF sk[t].code = 0 THEN 1006 ELSE sk[t].code]

NoPayload == [ciphertext |-> "", iv |-> "", hmac |-> "", nonce |-> ""]
Frame(to, type, id, from, nickname, payload, reason) ==
    [to |-> to, type |-> type, id |-> id, from |-> from, nickname |-> nickname,
     payload |-> payload, reason |-> reason, arg |-> NoArg]
\* faulty variant: the field is left out of the frame
FrameArgNoEcho(to, type, id, from, arg) == Frame(to, type, id, from, <<>>, NoPayload, "")

\* an outbound frame with the one field of its type: t of pong, seconds of
\* disappear_mode, alertType, isTyping, emoji
FrameArg(to, type, id, from, arg) ==
    [Frame(to, type, id, from, <<>>, NoPayload, "") EXCEPT !.arg = arg]

\* ws.send(frame): the frames sent so far in this handler, with one more if the socket is OPEN
Send(frames, sk, frame) == IF IsOpen(sk, frame.to) THEN Append(frames, frame) ELSE frames

addIPConnection(ipc, ip) == MapSet(ipc, ip, (IF ip \in DOMAIN ipc THEN ipc[ip] ELSE 0) + 1)

\* faulty variant: the count of an address is never decremented
removeIPConnectionKeep(ipc, ip) == ipc

removeIPConnection(ipc, ip) ==
    LET count == (IF ip \in DOMAIN ipc THEN ipc[ip] ELSE 1) - 1
    IN  IF count <= 0 THEN MapDelete(ipc, ip) ELSE MapSet(ipc, ip, count)

\* faulty variant: no address is ever over the limit
isIPOverLimitNever(ip) == FALSE

isIPOverLimit(ip) == (IF ip \in DOMAIN ipConnections THEN ipConnections[ip] ELSE 0) >= MAX_CONNECTIONS_PER_IP

\* faulty variant: a role is never found taken
RoleNeverTaken(room, role) == FALSE

\* lines 284-285: the slot of the role holds a socket whose readyState is OPEN
RoleTaken(room, role) == room[role] # NoSocket /\ IsOpen(sock, room[role])

ANON == <<"A", "n", "o", "n">>

\* wss.on('connection')
HexDigits == {"0", "1", "2", "3", "4", "5", "6", "7", "8", "9",
              "A", "B", "C", "D", "E", "F", "a", "b", "c", "d", "e", "f"}

\* the character of an escape of one byte below 0x80
EscapedChar(h1, h2) ==
    CASE <<h1, h2>> = <<"2", "5">> -> "%"
      [] <<h1, h2>> = <<"2", "0">> -> " "
      [] <<h1, h2>> = <<"4", "1">> -> "A"
      [] OTHER -> "?"

(***************************************************************************)
(* decodeURIComponent (line 270) on a string without multi-byte escapes:   *)
(* [ok, value], ok = FALSE when it throws URIError. A "%" must be followed *)
(* by two hex digits, and an escape of a byte from 0x80 on that does not   *)
(* start a well-formed UTF-8 sequence is malformed.                        *)
(***************************************************************************)
RECURSIVE decodeURIComponent(_)
decodeURIComponent(str) ==
    IF str = <<>> THEN [ok |-> TRUE, value |-> <<>>]
    ELSE IF Head(str) # "%"
    THEN LET r == decodeURIComponent(Tail(str))
         IN  [ok |-> r.ok, value |-> IF r.ok THEN <<Head(str)>> \o r.value ELSE <<>>]
    ELSE IF Len(str) >= 3 /\ str[2] \in HexDigits /\ str[3] \in HexDigits
            /\ str[2] \in {"0", "1", "2", "3", "4", "5", "6", "7"}
    THEN LET r == decodeURIComponent(SubSeq(str, 4, Len(str)))
         IN  [ok |-> r.ok,
              value |-> IF r.ok THEN <<EscapedChar(str[2], str[3])>> \o r.value ELSE <<>>]
    ELSE [ok |-> FALSE, value |-> <<>>]

(***************************************************************************)
(* An exception that leaves a listener is not caught anywhere in index.js  *)
(* (there is no try around the handler and no 'uncaughtException'          *)
(* listener), so Node ends the process: every room, socket, timer and      *)
(* limiter record of the relay is gone.                                    *)
(***************************************************************************)
Crash(id) ==
    /\ rooms' = EmptyMap
    /\ sock' = EmptyMap
    /\ ipConnections' = EmptyMap
    /\ timers' = {}
    /\ rateLimits' = EmptyMap
    /\ joinAttempts' = EmptyMap
    /\ bruteForce' = EmptyMap
    /\ pending' = EmptyMap
    /\ sent' = <<>>
    /\ last' = Event("crash", id, 0, NoMsg)
    /\ UNCHANGED <<reqSeq, hres, failedJoins>>

\* wss.on('connection'), lines 264-314. key, role, nickname and fp are the
\* values of url.parse(req.url, true).query, which the query parser has
\* already unescaped once.
Connect(originOk, key, role, nickname, fp, ip) ==
    LET id == sockSeq + 1
        roomKey == ToUpperCase(sanitize(IF Truthy(key) THEN key ELSE <<>>, KEY_LEN))
        decoded == IF IsString(nickname) /\ Truthy(nickname)
                   THEN decodeURIComponent(nickname)
                   ELSE [ok |-> TRUE, value |-> ANON]
        nick == sanitize(decoded.value, 20)
        fingerprint == sanitize(IF Truthy(fp) THEN fp ELSE <<>>, 50)
        reject(code) ==
            /\ last' = Event("connect", id, code, NoMsg)
            /\ sent' = <<>>
            /\ UNCHANGED <<rooms, ipConnections, sock>>
    IN  /\ sockSeq' = id
        /\ IF originOk /\ ~decoded.ok THEN Crash(id)
           ELSE /\ UNCHANGED <<hvars, timers>>
                /\ IF ~originOk THEN reject(4003)
                   ELSE IF roomKey = <<>> \/ role \notin Roles THEN reject(4000)
                   ELSE IF ~KeyFormatOk(roomKey) THEN reject(4000)
                   ELSE IF isIPOverLimit(ip) THEN reject(4006)
                   ELSE IF roomKey \notin DOMAIN rooms THEN reject(4001)
                   ELSE IF RoleTaken(rooms[roomKey], role) THEN reject(4004)
                   ELSE LET room == rooms[roomKey]
                            peer == room[Opposite(role)]
                            sk == MapSet(sock, id, Socket(roomKey, role, nick, ip))
                            f1 == Send(<<>>, sk, Frame(peer, "peer_joined", Absent, role, nick, NoPayload, ""))
                            bound == [room EXCEPT ![role] = id,
                                                  !.fingerprints = IF fingerprint # <<>>
                                                                   THEN [@ EXCEPT ![role] = fingerprint]
                                                                   ELSE @]
                        IN  /\ rooms' = [rooms EXCEPT ![roomKey] = Touched(bound)]
                            /\ ipConnections' = addIPConnection(ipConnections, ip)
                            /\ sock' = sk
                            /\ sent' = IF IsOpen(sk, peer)
                                       THEN Append(f1, Frame(id, "peer_joined", Absent, sk[peer].role,
                                                             sk[peer].nickname, NoPayload, ""))
                                       ELSE <<>>
                            /\ last' = Event("connect", id, 0, NoMsg)
        /\ UNCHANGED <<cvars, tvars, xvars>>

\* the client starts the closing handshake (or its connection drops)
ClientClose(s) ==
    /\ IsOpen(sock, s)
    /\ sock' = [sock EXCEPT ![s].readyState = "CLOSING", ![s].code = 1000]
    /\ last' = Event("client_close", s, 1000, NoMsg)
    /\ sent' = <<>>
    /\ UNCHANGED <<cvars, tvars, xvars, rooms, hvars, sockSeq, ipConnections, timers>>

\* ws.on('close'), lines 432-449
CloseEvent(s) ==
    /\ s \in DOMAIN sock
    /\ sock[s].readyState = "CLOSING"
    /\ sock' = MapDelete(sock, s)
    /\ last' = Event("close", s, sock[s].code, NoMsg)
    /\ ipConnections' = removeIPConnection(ipConnections, sock[s].ip)
    /\ IF sock[s].roomKey \notin DOMAIN rooms
       THEN /\ sent' = <<>>
            /\ UNCHANGED <<rooms, timers>>
       ELSE LET k == sock[s].roomKey
                target == rooms[k][Opposite(sock[s].role)]
                room == [rooms[k] EXCEPT ![sock[s].role] = NoSocket]
            IN  /\ sent' = Send(<<>>, sock, Frame(target, "peer_left", Absent, sock[s].role,
                                                  sock[s].nickname, NoPayload, ""))
                /\ rooms' = [rooms EXCEPT ![k] = room]
                /\ timers' = IF room.admin = NoSocket /\ room.receiver = NoSocket
                             THEN timers \cup {[roomKey |-> k, at |-> now + EMPTY_GRACE_MS]}
                             ELSE timers
    /\ UNCHANGED <<cvars, tvars, xvars, hvars, sockSeq>>

\* the callback of the setTimeout of lines 442-445
TimerFire(t) ==
    /\ t \in timers
    /\ now >= t.at
    /\ timers' = timers \ {t}
    /\ rooms' = IF /\ t.roomKey \in DOMAIN rooms
                   /\ rooms[t.roomKey].admin = NoSocket
                   /\ rooms[t.roomKey].receiver = NoSocket
                THEN MapDelete(rooms, t.roomKey)
                ELSE rooms
    /\ last' = Event("timer", NoSocket, 0, NoMsg)
    /\ sent' = <<>>
    /\ UNCHANGED <<cvars, tvars, xvars, hvars, sock, sockSeq, ipConnections>>

\* the heartbeat interval, lines 455-457
Heartbeat ==
    /\ sock' = [s \in DOMAIN sock |->
                  IF ~sock[s].isAlive THEN Terminate(sock, s)[s]
                  ELSE [sock[s] EXCEPT !.isAlive = FALSE]]
    /\ last' = Event("heartbeat", NoSocket, 0, NoMsg)
    /\ sent' = <<>>
    /\ UNCHANGED <<cvars, tvars, xvars, rooms, hvars, sockSeq, ipConnections, timers>>

\* ws.on('pong')
Pong(s) ==
    /\ IsOpen(sock, s)
    /\ ~sock[s].isAlive
    /\ sock' = [sock EXCEPT ![s].isAlive = TRUE]
    /\ last' = Event("pong", s, 0, NoMsg)
    /\ sent' = <<>>
    /\ UNCHANGED <<cvars, tvars, xvars, rooms, hvars, sockSeq, ipConnections, timers>>

EncTypes == {"encrypted_message", "encrypted_image", "encrypted_file"}

\* faulty variant: no frame is ever limited
isMessageRateLimitedNever(stamps) == [limited |-> FALSE, stamps |-> Append(stamps, now)]

\* isMessageRateLimited, lines 316-324
isMessageRateLimited(stamps) ==
    LET recent == SelectSeq(stamps, LAMBDA t : now - t < MSG_RATE_WINDOW)
    IN  IF Len(recent) >= MSG_RATE_MAX
        THEN [limited |-> TRUE, stamps |-> recent]
        ELSE [limited |-> FALSE, stamps |-> Append(recent, now)]

(***************************************************************************)
(* ws.on('message') for a frame that parses to an object with a string     *)
(* type.  Frames still arrive on a socket whose close the relay itself     *)
(* started.  Of the frame types, the payload frames, read_receipt,         *)
(* room_end, canary and ping are drawn.                                    *)
(***************************************************************************)
\* lines 386, 400 and 409
allowedAlerts == { Str(a) : a \in {"copy_attempt", "screenshot_attempt", "save_attempt", "tab_switch",
                                    "devtools_attempt", "screen_capture", "window_blur"} }
allowedEmoji == { Str(e) : e \in {"fire", "check", "heart", "eyes", "thumbs up", "joy"} }
allowed == {0, 30, 60, 300}

\* faulty variant: the requested value is stored as it is
disappearSecondsAny(v) == v.num

\* allowed.includes(msg.seconds) ? msg.seconds : 0 (line 410)
disappearSeconds(v) == IF v.kind = "number" /\ v.num \in allowed THEN v.num ELSE 0

\* the type of a frame of more than 10 MB (line 328)
TooLarge == "<too large>"

\* ws.on('message'), lines 327-428. A frame that JSON.parse refuses, the
\* frame null and a frame whose type is not a string have type Absent.
Message(s, m) ==
    /\ s \in DOMAIN sock
    /\ sock[s].readyState = "OPEN" \/ sock[s].code \in {4002, 4005, 4007}
    /\ last' = Event("message", s, 0, m)
    /\ LET k == sock[s].roomKey
           exists == k \in DOMAIN rooms
           active == IF exists THEN [rooms EXCEPT ![k] = Touched(@)] ELSE rooms
           rl == isMessageRateLimited(sock[s].msgTimestamps)
           counted == [sock EXCEPT ![s].msgTimestamps = rl.stamps,
                                   ![s].processed = IF rl.limited THEN @ ELSE Append(@, now)]
           target == IF exists THEN rooms[k][Opposite(sock[s].role)] ELSE NoSocket
       IN  IF m.type = TooLarge
           THEN /\ sent' = Send(<<>>, sock, Frame(s, "error", Absent, "", <<>>, NoPayload, "Message too large"))
                /\ UNCHANGED <<rooms, sock>>
           ELSE IF m.type = Absent
           THEN /\ sent' = <<>>
                /\ UNCHANGED <<rooms, sock>>
           ELSE IF m.type = "canary"
           THEN /\ sent' = Send(<<>>, sock, Frame(s, "canary_ack", Absent, "", <<>>, NoPayload, ""))
                /\ rooms' = active
                /\ UNCHANGED sock
           ELSE IF m.type = "ping"
           THEN /\ sent' = Send(<<>>, sock, FrameArg(s, "pong", Absent, "", m.arg))
                /\ rooms' = active
                /\ UNCHANGED sock
           ELSE IF rl.limited
           THEN /\ sent' = Send(<<>>, sock, Frame(s, "error", Absent, "", <<>>, NoPayload, "Slow down"))
                /\ rooms' = active
                /\ sock' = counted
           ELSE IF ~exists
           THEN /\ sent' = <<>>
                /\ rooms' = active
                /\ sock' = counted
           ELSE IF m.type \in EncTypes
           THEN IF ~Present(m.ciphertext) \/ ~Present(m.iv)
                THEN /\ sent' = <<>>
                     /\ rooms' = active
                     /\ sock' = counted
                ELSE /\ rooms' = [active EXCEPT ![k].messageCount = @ + 1]
                     /\ sock' = counted
                     /\ sent' = IF IsOpen(sock, target)
                                THEN Send(<<Frame(target, m.type, m.id, sock[s].role, <<>>,
                                                  [ciphertext |-> m.ciphertext, iv |-> m.iv,
                                                   hmac |-> m.hmac, nonce |-> m.nonce], "")>>,
                                          sock, Frame(s, "delivery_ack", m.id, "", <<>>, NoPayload, ""))
                                ELSE Send(<<>>, sock, Frame(s, "ack", m.id, "", <<>>, NoPayload, ""))
           ELSE IF m.type = "read_receipt"
           THEN /\ sent' = Send(<<>>, sock, Frame(target, "read_receipt", m.id, "", <<>>, NoPayload, ""))
                /\ rooms' = active
                /\ sock' = counted
           ELSE IF m.type = "security_alert"
           THEN /\ sent' = Send(<<>>, sock, FrameArg(target, "security_alert", Absent, sock[s].role,
                                                     IF m.arg \in allowedAlerts THEN m.arg ELSE Str("unknown")))
                /\ rooms' = active
                /\ sock' = counted
           ELSE IF m.type = "typing"
           THEN /\ sent' = Send(<<>>, sock, FrameArg(target, "typing", Absent, "", Bool(ToBoolean(m.arg))))
                /\ rooms' = active
                /\ sock' = counted
           ELSE IF m.type = "reaction"
           THEN /\ sent' = Send(<<>>, sock, FrameArg(target, "reaction", IF Present(m.id) THEN m.id ELSE "",
                                                     sock[s].role,
                                                     IF m.arg \in allowedEmoji THEN m.arg ELSE Str("thumbs up")))
                /\ rooms' = active
                /\ sock' = counted
           ELSE IF m.type = "disappear_mode"
           THEN IF sock[s].role = "admin"
                THEN LET seconds == disappearSeconds(m.arg)
                     IN  /\ rooms' = [active EXCEPT ![k].disappearMode = seconds]
                         /\ sock' = counted
                         /\ sent' = Send(Send(<<>>, sock, FrameArg(target, "disappear_mode", Absent, "",
                                                                   Num(seconds))),
                                         sock, FrameArg(s, "disappear_mode", Absent, "", Num(seconds)))
                ELSE /\ sent' = <<>>
                     /\ rooms' = active
                     /\ sock' = counted
           ELSE IF m.type = "room_end"
           THEN /\ sent' = Send(<<>>, sock, Frame(target, "room_end", Absent, sock[s].role, <<>>, NoPayload, ""))
                /\ rooms' = MapDelete(rooms, k)
                /\ sock' = Close(Close(counted, target, 4002), s, 4002)
           ELSE /\ sent' = <<>>
                /\ rooms' = active
                /\ sock' = counted
    /\ UNCHANGED <<cvars, tvars, xvars, hvars, sockSeq, ipConnections, timers>>

\* faulty variant: the sweep keeps every room
SweepVerdictKeep(room) == "keep"

\* what the sweep of lines 460-481 does to one room
SweepVerdict(room) ==
    IF now - room.lastActivity > IDLE_MS THEN "inactivity"
    ELSE IF room.admin = NoSocket /\ room.receiver = NoSocket /\ now - room.createdAt > EMPTY_MS
    THEN "empty"
    ELSE IF now - room.createdAt > HARD_MS THEN "expired"
    ELSE "keep"

\* the sockets in the slots of a room, admin first
SlotSockets(room) == SelectSeq(<<room.admin, room.receiver>>, LAMBDA t : t # NoSocket)

RECURSIVE SweepRooms(_, _, _)
SweepRooms(keys, sk, frames) ==
    IF keys = {} THEN [sock |-> sk, sent |-> frames]
    ELSE LET k == CHOOSE x \in keys : TRUE
             slots == SlotSockets(rooms[k])
             verdict == SweepVerdict(rooms[k])
             code == IF verdict = "inactivity" THEN 4007 ELSE 4005
             notice(t) == Frame(t, "room_end", Absent, "server", <<>>, NoPayload, "inactivity")
             sk1 == IF verdict \in {"inactivity", "expired"} /\ Len(slots) >= 1
                    THEN Close(sk, slots[1], code) ELSE sk
             fr1 == IF verdict = "inactivity" /\ Len(slots) >= 1
                    THEN Send(frames, sk, notice(slots[1])) ELSE frames
             sk2 == IF verdict \in {"inactivity", "expired"} /\ Len(slots) >= 2
                    THEN Close(sk1, slots[2], code) ELSE sk1
             fr2 == IF verdict = "inactivity" /\ Len(slots) >= 2
                    THEN Send(fr1, sk1, notice(slots[2])) ELSE fr1
         IN  SweepRooms(keys \ {k}, sk2, fr2)

\* the sweep interval, lines 460-481
Sweep ==
    LET r == SweepRooms(DOMAIN rooms, sock, <<>>)
    IN  /\ rooms' = [k \in {x \in DOMAIN rooms : SweepVerdict(rooms[x]) = "keep"} |-> rooms[k]]
        /\ sock' = r.sock
        /\ sent' = r.sent
        /\ last' = Event("sweep", NoSocket, 0, NoMsg)
        /\ UNCHANGED <<cvars, tvars, xvars, hvars, sockSeq, ipConnections, timers>>

(***************************************************************************)
(* The client transport (client/src/lib/appLifecycle.js, lines 104-305).   *)
(* Its module-level variables are the variables ws .. lastPongAt above.    *)
(* wsocks holds every socket the client created whose close event has not  *)
(* been delivered yet; a socket that ws names and wsocks does not is       *)
(* CLOSED. pendingTimers is the runtime's timer table: setTimeout and       *)
(* setInterval add an entry, clearTimeout and clearInterval remove the     *)
(* entry with the given id, and a timeout is removed when it fires. Ids of *)
(* sockets and timers are reused only when nothing refers to them.         *)
(* lastRTT and the connection fingerprint are not part of the state: no    *)
(* branch of the transport reads them.                                     *)
(***************************************************************************)
MaxWs == 2         \* client sockets that can deliver events at one time
MaxTimerId == 3    \* timer ids in use at one time
MaxAttempts == 2   \* cap on reconnectAttempts outside the retry specification

NoWs == 0                        \* ws = null, line 106
NoTimer == 0                     \* reconnectTimer = null, line 108
MAX_RECONNECT_ATTEMPTS == 15     \* line 115
fatalCodes == {4000, 4001, 4002, 4003, 4004, 4005}     \* line 234
WsIds == 1..MaxWs
TimerIds == 1..MaxTimerId

ClientEvent(op, s, code) == [op |-> op, s |-> s, code |-> code]
NoClientEvent == ClientEvent("none", 0, 0)

Smallest(S) == CHOOSE x \in S : \A y \in S : x <= y

\* new WebSocket(url) with its four handlers attached (lines 182-262).
\* handlers is FALSE once onclose, onerror and onmessage have been set to
\* null; byApp names the operation that called close() on the socket; code
\* is the code its close event will carry; attempt is reconnectAttempts
\* when it was created.
NewWebSocket(attempt) ==
    [readyState |-> "CONNECTING", handlers |-> TRUE, code |-> 0,
     byApp |-> "none", attempt |-> attempt]

\* ws.readyState, for a socket id
readyState(socks, w) == IF w \in DOMAIN socks THEN socks[w].readyState ELSE "CLOSED"

\* ws && ws.readyState <= 1 (line 178)
ConnectingOrOpen(w, socks) == w # NoWs /\ readyState(socks, w) \in {"CONNECTING", "OPEN"}

\* ws && ws.readyState === WebSocket.OPEN (lines 196, 204, 266)
WsIsOpen(w, socks) == w # NoWs /\ readyState(socks, w) = "OPEN"

\* _connect() has a socket id to give to a new socket, if it needs one
CanConnect(w, socks) == ConnectingOrOpen(w, socks) \/ WsIds \ DOMAIN socks # {}

\* _connect(), lines 177-182: the new values of ws and of the socket table
DoConnect(w, socks, attempt) ==
    IF ConnectingOrOpen(w, socks) THEN [ws |-> w, wsocks |-> socks]
    ELSE LET id == Smallest(WsIds \ DOMAIN socks)
         IN  [ws |-> id, wsocks |-> MapSet(socks, id, NewWebSocket(attempt))]

Timer(id, kind) == [id |-> id, kind |-> kind]

\* clearTimeout(id), clearInterval(id): nothing happens for null or for a
\* timer that is no longer pending
clearTimer(pt, id) == {t \in pt : t.id # id}

\* the ids setTimeout/setInterval can return: not pending, not referred to
FreeTimers(pt, refs) == TimerIds \ ({t.id : t \in pt} \cup refs)

\* listeners.onMessage?.(msg): what the listener receives
Deliver(has, msgs) == IF has THEN msgs ELSE <<>>

StatusMsg(status) == [type |-> "status", status |-> status]

\* ws.close(): a socket that is CONNECTING or OPEN starts closing, and its
\* close event will carry 1006 when the connection was never established,
\* otherwise the code given; closing a socket twice does nothing.
CloseWs(sk, code, by) ==
    IF sk.readyState \in {"CONNECTING", "OPEN"}
    THEN [sk EXCEPT !.readyState = "CLOSING",
                    !.code = IF sk.readyState = "CONNECTING" THEN 1006 ELSE code,
                    !.byApp = by]
    ELSE sk

\* connect(roomKey, role, nickname, onMessage), lines 170-175
connect ==
    /\ CanConnect(ws, wsocks)
    /\ LET c == DoConnect(ws, wsocks, 0)
       IN  /\ ws' = c.ws
           /\ wsocks' = c.wsocks
    /\ listeners' = TRUE
    /\ reconnectAttempts' = 0
    /\ notified' = <<>>
    /\ clast' = ClientEvent("connect", ws', 0)
    /\ UNCHANGED <<reconnectTimer, pingInterval, canaryInterval, connectionHealth,
                   pendingTimers, lastPongAt>>
    /\ UNCHANGED <<cvars, tvars, svars>> /\ Quiet

\* ws.onopen, lines 184-208. onopen is never set to null, so it runs for
\* every socket that opens. The previous pingInterval is overwritten
\* without being cleared (line 195); the previous canaryInterval is cleared
\* first (line 202).
WsOpen(s) ==
    /\ s \in DOMAIN wsocks
    /\ wsocks[s].readyState = "CONNECTING"
    /\ LET pt1 == clearTimer(pendingTimers, reconnectTimer)
           free1 == FreeTimers(pt1, {pingInterval, canaryInterval})
           ping == Smallest(free1)
           pt2 == clearTimer(pt1 \cup {Timer(ping, "ping")}, canaryInterval)
           free2 == FreeTimers(pt2, {ping})
           canary == Smallest(free2)
       IN  /\ free1 # {}
           /\ free2 # {}
           /\ pingInterval' = ping
           /\ canaryInterval' = canary
           /\ pendingTimers' = pt2 \cup {Timer(canary, "canary")}
    /\ wsocks' = [wsocks EXCEPT ![s].readyState = "OPEN"]
    /\ connectionHealth' = "connected"
    /\ reconnectAttempts' = 0
    /\ notified' = Deliver(listeners, <<StatusMsg("connected")>>)
    /\ reconnectTimer' = NoTimer
    /\ clast' = ClientEvent("open", s, 0)
    /\ UNCHANGED <<ws, listeners, lastPongAt>>
    /\ UNCHANGED <<cvars, tvars, svars>> /\ Quiet

ServerFrames == {"pong", "canary_ack", "message"}

\* ws.onmessage, lines 210-226: the server's frame arrives on socket s
WsMessage(s, type) ==
    /\ s \in DOMAIN wsocks
    /\ wsocks[s].readyState = "OPEN"
    /\ IF ~wsocks[s].handlers
       THEN /\ notified' = <<>>
            /\ UNCHANGED lastPongAt
       ELSE IF type \in {"pong", "canary_ack"}
       THEN /\ lastPongAt' = now
            /\ notified' = <<>>
       ELSE /\ notified' = Deliver(listeners, <<[type |-> type]>>)
            /\ UNCHANGED lastPongAt
    /\ clast' = ClientEvent("message", s, 0)
    /\ UNCHANGED <<ws, wsocks, reconnectTimer, pingInterval, canaryInterval,
                   reconnectAttempts, connectionHealth, listeners, pendingTimers>>
    /\ UNCHANGED <<cvars, tvars, svars>> /\ Quiet

\* The connection of socket s fails before it is established: the error
\* event runs ws.onerror (lines 259-262) and the socket starts closing with
\* code 1006.
WsError(s) ==
    /\ s \in DOMAIN wsocks
    /\ wsocks[s].readyState = "CONNECTING"
    /\ wsocks' = [wsocks EXCEPT ![s].readyState = "CLOSING", ![s].code = 1006]
    /\ IF wsocks[s].handlers
       THEN /\ connectionHealth' = "error"
            /\ notified' = Deliver(listeners, <<StatusMsg("error")>>)
       ELSE /\ notified' = <<>>
            /\ UNCHANGED connectionHealth
    /\ clast' = ClientEvent("error", s, 1006)
    /\ UNCHANGED <<ws, reconnectTimer, pingInterval, canaryInterval, reconnectAttempts,
                   listeners, pendingTimers, lastPongAt>>
    /\ UNCHANGED <<cvars, tvars, svars>> /\ Quiet

\* The server, or the network, closes the open socket s with the given code:
\* the close event is queued.
PeerClose(s, code) ==
    /\ s \in DOMAIN wsocks
    /\ wsocks[s].readyState = "OPEN"
    /\ wsocks' = [wsocks EXCEPT ![s].readyState = "CLOSING", ![s].code = code]
    /\ notified' = <<>>
    /\ clast' = ClientEvent("closing", s, code)
    /\ UNCHANGED <<ws, reconnectTimer, pingInterval, canaryInterval, reconnectAttempts,
                   connectionHealth, listeners, pendingTimers, lastPongAt>>
    /\ UNCHANGED <<cvars, tvars, svars>> /\ Quiet

\* ws.onclose, lines 228-257: the close event of socket s is delivered. The
\* handler works on the module's variables, whichever socket it belongs to.
WsClose(s) ==
    /\ s \in DOMAIN wsocks
    /\ wsocks[s].readyState = "CLOSING"
    /\ wsocks' = MapDelete(wsocks, s)
    /\ clast' = ClientEvent("close", s, wsocks[s].code)
    /\ IF ~wsocks[s].handlers
       THEN /\ notified' = <<>>
            /\ UNCHANGED <<reconnectTimer, pingInterval, canaryInterval,
                           connectionHealth, pendingTimers>>
       ELSE LET pt == clearTimer(clearTimer(pendingTimers, pingInterval), canaryInterval)
                free == FreeTimers(pt, {reconnectTimer})
                id == Smallest(free)
            IN  /\ pingInterval' = NoTimer
                /\ canaryInterval' = NoTimer
                /\ IF wsocks[s].code \notin fatalCodes
                   THEN IF reconnectAttempts < MAX_RECONNECT_ATTEMPTS
                        THEN /\ free # {}
                             /\ connectionHealth' = "reconnecting"
                             /\ notified' = Deliver(listeners, <<StatusMsg("reconnecting")>>)
                             /\ reconnectTimer' = id
                             /\ pendingTimers' = pt \cup {Timer(id, "reconnect")}
                        ELSE /\ connectionHealth' = "disconnected"
                             /\ notified' = Deliver(listeners, <<StatusMsg("reconnecting"),
                                                                 StatusMsg("disconnected")>>)
                             /\ pendingTimers' = pt
                             /\ UNCHANGED reconnectTimer
                   ELSE /\ connectionHealth' = "disconnected"
                        /\ notified' = Deliver(listeners, <<StatusMsg("disconnected")>>)
                        /\ pendingTimers' = pt
                        /\ UNCHANGED reconnectTimer
    /\ UNCHANGED <<ws, reconnectAttempts, listeners, lastPongAt>>
    /\ UNCHANGED <<cvars, tvars, svars>> /\ Quiet

\* The callback of a reconnect timer, lines 245-248
ReconnectFire(t) ==
    /\ t \in pendingTimers
    /\ t.kind = "reconnect"
    /\ CanConnect(ws, wsocks)
    /\ pendingTimers' = pendingTimers \ {t}
    /\ reconnectAttempts' = reconnectAttempts + 1
    /\ LET c == DoConnect(ws, wsocks, reconnectAttempts + 1)
       IN  /\ ws' = c.ws
           /\ wsocks' = c.wsocks
    /\ notified' = <<>>
    /\ clast' = ClientEvent("reconnect", ws', 0)
    /\ UNCHANGED <<reconnectTimer, pingInterval, canaryInterval, connectionHealth,
                   listeners, lastPongAt>>
    /\ UNCHANGED <<cvars, tvars, svars>> /\ Quiet

\* The callback of a ping or canary interval, lines 195-199 and 203-207:
\* a frame goes out when the current socket is open.
IntervalFire(t) ==
    /\ t \in pendingTimers
    /\ t.kind \in {"ping", "canary"}
    /\ notified' = <<>>
    /\ clast' = IF WsIsOpen(ws, wsocks) THEN ClientEvent(t.kind, ws, 0)
                ELSE ClientEvent("idle", NoWs, 0)
    /\ UNCHANGED <<ws, wsocks, reconnectTimer, pingInterval, canaryInterval,
                   reconnectAttempts, connectionHealth, listeners, pendingTimers, lastPongAt>>
    /\ UNCHANGED <<cvars, tvars, svars>> /\ Quiet

\* send(data), lines 265-269
send ==
    /\ notified' = <<>>
    /\ clast' = IF WsIsOpen(ws, wsocks) THEN ClientEvent("send", ws, 0)
                ELSE ClientEvent("idle", NoWs, 0)
    /\ UNCHANGED <<ws, wsocks, reconnectTimer, pingInterval, canaryInterval,
                   reconnectAttempts, connectionHealth, listeners, pendingTimers, lastPongAt>>
    /\ UNCHANGED <<cvars, tvars, svars>> /\ Quiet

\* disconnect(), lines 271-280. reconnectTimer keeps its id; the socket
\* keeps its handlers.
disconnect ==
    /\ pendingTimers' = clearTimer(clearTimer(clearTimer(pendingTimers, reconnectTimer),
                                              pingInterval), canaryInterval)
    /\ pingInterval' = NoTimer
    /\ canaryInterval' = NoTimer
    /\ wsocks' = IF ws \in DOMAIN wsocks
                 THEN [wsocks EXCEPT ![ws] = CloseWs(@, 1000, "disconnect")]
                 ELSE wsocks
    /\ ws' = NoWs
    /\ connectionHealth' = "disconnected"
    /\ notified' = <<>>
    /\ clast' = ClientEvent("disconnect", ws, 0)
    /\ UNCHANGED <<reconnectTimer, reconnectAttempts, listeners, lastPongAt>>
    /\ UNCHANGED <<cvars, tvars, svars>> /\ Quiet

\* forceDisconnect(), lines 286-305. close() without a code gives 1005.
forceDisconnect ==
    /\ pendingTimers' = clearTimer(clearTimer(clearTimer(pendingTimers, reconnectTimer),
                                              pingInterval), canaryInterval)
    /\ reconnectTimer' = NoTimer
    /\ pingInterval' = NoTimer
    /\ canaryInterval' = NoTimer
    /\ wsocks' = IF ws \in DOMAIN wsocks
                 THEN [wsocks EXCEPT ![ws] = [CloseWs(@, 1005, "forceDisconnect")
                                                EXCEPT !.handlers = FALSE,
                                                       !.byApp = "forceDisconnect"]]
                 ELSE wsocks
    /\ ws' = NoWs
    /\ connectionHealth' = "disconnected"
    /\ listeners' = FALSE
    /\ notified' = <<>>
    /\ clast' = ClientEvent("forceDisconnect", ws, 0)
    /\ UNCHANGED <<reconnectAttempts, lastPongAt>>
    /\ UNCHANGED <<cvars, tvars, svars>> /\ Quiet

IPs == {"10.0.0.1", "10.0.0.2"}

Init ==
    /\ cipher = [c \in Ctx |-> EmptyState]
    /\ wire = <<>>
    /\ encSeq = 0
    /\ cres = NoCall
    /\ accepted = [c \in Ctx |-> <<>>]
    /\ now = T0
    /\ ticks = 0
    /\ rooms = EmptyMap
    /\ rateLimits = EmptyMap
    /\ joinAttempts = EmptyMap
    /\ bruteForce = EmptyMap
    /\ pending = EmptyMap
    /\ reqSeq = 0
    /\ hres = NoResponse
    /\ failedJoins = [ip \in IPs |-> [count |-> 0, at |-> 0]]
    /\ sock = EmptyMap
    /\ sockSeq = 0
    /\ ipConnections = EmptyMap
    /\ timers = {}
    /\ sent = <<>>
    /\ last = NoEvent
    /\ ws = NoWs
    /\ wsocks = EmptyMap
    /\ reconnectTimer = NoTimer
    /\ pingInterval = NoTimer
    /\ canaryInterval = NoTimer
    /\ reconnectAttempts = 0
    /\ connectionHealth = "disconnected"
    /\ listeners = FALSE
    /\ pendingTimers = {}
    /\ lastPongAt = 0
    /\ notified = <<>>
    /\ clast = NoClientEvent

(***************************************************************************)
(* SpecCipher: alice sends text under either (secret, salt) pair, the      *)
(* channel may change a fragment, bob decrypts; either side may wipe.      *)
(***************************************************************************)
CipherNext ==
    \/ \E P \in Plaintexts, pair \in Pairs : encSeq < MaxEnc /\ Encrypt("alice", P, pair)
    \/ \E i \in 1..MaxEnc, tam \in Tampers, pair \in Pairs : Decrypt("bob", i, tam, pair)
    \/ \E c \in Ctx : WipeKeys(c)

SpecCipher == Init /\ [][CipherNext]_vars

(***************************************************************************)
(* SpecFresh: the same with a clock, for the staleness check.              *)
(***************************************************************************)
FreshTampers == {"none", "nonce_flip", "no_hmac", "stripped"}

FreshNext ==
    \/ \E P \in Plaintexts, pair \in Pairs : encSeq < MaxEnc /\ Encrypt("alice", P, pair)
    \/ \E i \in 1..MaxEnc, tam \in FreshTampers, pair \in Pairs : Decrypt("bob", i, tam, pair)
    \/ \E d \in TickSteps : ticks < MaxTicks /\ Tick(d)

SpecFresh == Init /\ [][FreshNext]_vars

(***************************************************************************)
(* SpecReplay: one (secret, salt), text and binary fragments, resubmitted  *)
(* in any order to either decrypt function.                                *)
(***************************************************************************)
ReplayPair == <<"ROOM01", "abc123">>

ReplayNext ==
    \/ encSeq < MaxReplayEnc /\ Encrypt("alice", "hello", ReplayPair)
    \/ encSeq < MaxReplayEnc /\ EncryptBinary("alice", "file", ReplayPair)
    \/ \E i \in 1..MaxReplayEnc : Decrypt("bob", i, "none", ReplayPair)
    \/ \E i \in 1..MaxReplayEnc : DecryptBinary("bob", i, "none", ReplayPair)
    \/ WipeKeys("bob")

SpecReplay == Init /\ [][ReplayNext]_vars

(***************************************************************************)
(* SpecCreate: create-room requests, overlapping, with and without a       *)
(* password, until the generator's keys are used up.                       *)
(***************************************************************************)
MaxCreates == 4

CreateNext ==
    \/ \E pw \in {Undefined, <<"p", "w">>} : reqSeq < MaxCreates /\ CreateStart("10.0.0.1", pw)
    \/ \E id \in 1..MaxCreates : CreateFinish(id, "abc123", RandomBytes)

SpecCreate == Init /\ [][CreateNext]_vars

(***************************************************************************)
(* SpecJoin: one room, and join-room requests from one address with        *)
(* missing, malformed, unknown and right keys, overlapping or in sequence. *)
(***************************************************************************)
OneKey == { <<0, 0, 0, 0, 0, 0>> }
MaxJoins == 7
MaxOverlap == 2
JoinInputs == { <<Undefined, Undefined>>,
                <<<<"A", "A", "!">>, Undefined>>,
                <<<<"B", "B", "B", "B", "B", "B">>, Undefined>>,
                <<<<" ", "a", "a", "a", "a", "a", "a">>, <<"x">>>>,
                <<<<" ", "a", "a", "a", "a", "a", "a">>, <<"p", "w">>>> }

JoinNext ==
    \/ reqSeq < 1 /\ CreateStart("10.0.0.2", <<"p", "w">>)
    \/ CreateFinish(1, "abc123", OneKey)
    \/ \E in \in JoinInputs :
          /\ reqSeq >= 1 /\ reqSeq < MaxJoins /\ Cardinality(DOMAIN pending) < MaxOverlap
          /\ JoinStart("10.0.0.1", in[1], in[2])
    \/ \E id \in 1..MaxJoins : JoinResume(id)
    \/ \E id \in 1..MaxJoins : JoinFail(id)
    \/ CleanupRateMaps

SpecJoin == Init /\ [][JoinNext]_vars

(***************************************************************************)
(* SpecSlots: one room and the sockets that come and go on it: admission,  *)
(* the two halves of a close, the heartbeat, the sweep and the empty-room  *)
(* timer.                                                                  *)
(***************************************************************************)
MaxSock == 4
RoomSalt == "abc123"
ConnectKeys == { <<"a", "a", "a", "a", "a", "a">>, <<"B", "B", "B", "B", "B", "B">> }
Fingerprints == { Undefined, <<"f", "p">> }

SlotsNext ==
    \/ reqSeq < 1 /\ CreateStart("10.0.0.1", Undefined)
    \/ CreateFinish(1, RoomSalt, OneKey)
    \/ \E originOk \in BOOLEAN, key \in ConnectKeys, role \in Roles, fp \in Fingerprints :
          sockSeq < MaxSock /\ Connect(originOk, key, role, Undefined, fp, "10.0.0.1")
    \/ \E s \in 1..MaxSock : ClientClose(s)
    \/ \E s \in 1..MaxSock : CloseEvent(s)
    \/ \E s \in 1..MaxSock : Pong(s)
    \/ Heartbeat
    \/ Sweep

SpecSlots == Init /\ [][SlotsNext]_vars

(***************************************************************************)
(* SpecRoute: one room, its sockets, and the frames they send: payload     *)
(* frames with and without ciphertext and iv, read receipts and room_end.  *)
(***************************************************************************)
MaxRouteSock == 3
MaxFrames == 2
RoomKeyParam == <<"a", "a", "a", "a", "a", "a">>
RouteMsgs == { Msg("encrypted_message", "m1", "ct", "iv", "mac", "n1"),
               Msg("encrypted_image", "m2", "ct", "iv", Absent, Absent),
               Msg("encrypted_file", Absent, "ct", "", "mac", "n3"),
               Msg("read_receipt", "m1", Absent, Absent, Absent, Absent),
               Msg("room_end", Absent, Absent, Absent, Absent, Absent) }

RouteNext ==
    \/ reqSeq < 1 /\ CreateStart("10.0.0.1", Undefined)
    \/ CreateFinish(1, RoomSalt, OneKey)
    \/ \E role \in Roles :
          sockSeq < MaxRouteSock /\ Connect(TRUE, RoomKeyParam, role, Undefined, Undefined, "10.0.0.1")
    \/ \E s \in 1..MaxRouteSock : ClientClose(s)
    \/ \E s \in 1..MaxRouteSock : CloseEvent(s)
    \/ \E s \in 1..MaxRouteSock, m \in RouteMsgs :
          /\ s \in DOMAIN sock
          /\ Len(sock[s].msgTimestamps) < MaxFrames
          /\ Message(s, m)

SpecRoute == Init /\ [][RouteNext]_vars

(***************************************************************************)
(* SpecSweep: one room, its sockets, pings that keep it active, the clock, *)
(* the empty-room timer and the sweep.                                     *)
(***************************************************************************)
MaxSweepTicks == 2
SweepTicks == {EMPTY_GRACE_MS, IDLE_MS, IDLE_MS + 1}
PingMsg == Msg("ping", Absent, Absent, Absent, Absent, Absent)

SweepNext ==
    \/ reqSeq < 1 /\ CreateStart("10.0.0.1", Undefined)
    \/ CreateFinish(1, RoomSalt, OneKey)
    \/ \E role \in Roles :
          sockSeq < MaxRouteSock /\ Connect(TRUE, RoomKeyParam, role, Undefined, Undefined, "10.0.0.1")
    \/ \E s \in 1..MaxRouteSock : ClientClose(s)
    \/ \E s \in 1..MaxRouteSock : CloseEvent(s)
    \/ \E s \in 1..MaxRouteSock : Message(s, PingMsg)
    \/ \E t \in timers : TimerFire(t)
    \/ \E d \in SweepTicks : ticks < MaxSweepTicks /\ Tick(d)
    \/ Sweep

SpecSweep == Init /\ [][SweepNext]_vars

(***************************************************************************)
(* Properties of the cipher layer.                                         *)
(***************************************************************************)

\* the fragment was returned by encrypt / encryptBinary under this (secret, salt)
ProducedUnder(f, pair) == f.ciphertext.k = AesKey(pair[1], pair[2])

\* the fragment's nonce is neither in the context's window nor was accepted before
FirstTime(c, f) ==
    /\ ~InSeq(f.nonce, cipher[c].usedNonces)
    /\ \A j \in 1..Len(accepted[c]) : accepted[c][j].nonce # f.nonce

\* age of the envelope inside a text fragment at the receiver's clock
Age(f) == now - f.ciphertext.pt.t

\* the signature the fragment carries verifies in context c under the pair
SignatureVerifies(c, f, pair) ==
    /\ f.hmac # NoHmac
    /\ verifySignature(cipher[c], VerifyData(f.ciphertext, f.iv, f.nonce), f.hmac,
                       pair[1], pair[2]).valid

\* the nonce is one of the k nonces context c accepted most recently
InLastK(c, nonce, k) ==
    \E j \in 1..Len(accepted[c]) : j > Len(accepted[c]) - k /\ accepted[c][j].nonce = nonce

\* how many accepted nonces the window is sure to hold: its size after an eviction
Retained == MAX_NONCE_HISTORY + 1 - EVICT_BATCH

(***************************************************************************)
(* C1: a fragment returned by encrypt(P, secret, salt), passed unmodified  *)
(* and for the first time to decrypt in the peer's context with the same   *)
(* (secret, salt) within the staleness window, decrypts to exactly P.      *)
(***************************************************************************)
C1_RoundTrip ==
    [][ \A i \in 1..MaxEnc, pair \in Pairs :
          ( /\ Decrypt("bob", i, "none", pair)
            /\ ProducedUnder(wire[i], pair)
            /\ FirstTime("bob", wire[i])
            /\ Age(wire[i]) <= STALE_MS )
          => ( /\ cres'.out = "ok"
               /\ cres'.value = Raw("str", wire[i].ciphertext.pt.p) ) ]_vars

\* the round trip went wrong: a genuine fragment, first submission, same pair, rejected
C1_Rejected ==
    /\ cres.op = "decrypt" /\ cres.tam = "none" /\ cres.out = "INTEGRITY"
    /\ \E i \in 1..Len(wire), pair \in Pairs :
          /\ wire[i].nonce = cres.nonce
          /\ ProducedUnder(wire[i], pair)
          /\ cipher["bob"].cachedKey = NoKey \/ cipher["bob"].cachedSalt = pair[2]
          /\ cipher["bob"].cachedHmacKey = HmacKey(pair[1], pair[2])

(***************************************************************************)
(* C2: a fragment produced by encrypt in which exactly one of ciphertext,  *)
(* iv and nonce is changed (or emptied) while the signature is kept is     *)
(* rejected by decrypt with the integrity error; no plaintext is returned. *)
(***************************************************************************)
C2_TamperDetected ==
    [][ ( /\ cres'.op = "decrypt"
          /\ cres'.tam \in OneFieldTampers
          /\ \E i \in 1..Len(wire) :
                /\ Tamper(i, cres'.tam) # wire[i]
                /\ Tamper(i, cres'.tam).hmac = wire[i].hmac )
        => ( /\ cres'.out = "INTEGRITY"
             /\ cres'.value = NoValue
             /\ cipher'["bob"].usedNonces = cipher["bob"].usedNonces ) ]_vars

\* an emptied nonce on an otherwise genuine fragment was caught
C2_Witness ==
    /\ cres.op = "decrypt" /\ cres.tam = "nonce_empty" /\ cres.nonce = 0
    /\ cres.out = "INTEGRITY"
    /\ cipher["bob"].cachedHmacKey # NoKey

(***************************************************************************)
(* C3 as stated: when one fragment is submitted twice to decrypt /         *)
(* decryptBinary in one context with no wipe in between, the first         *)
(* submission succeeds and every later one is rejected as a replay.        *)
(***************************************************************************)
C3_ReplayAlways ==
    [][ \A i \in 1..MaxReplayEnc :
          ( \/ Decrypt("bob", i, "none", ReplayPair)
            \/ DecryptBinary("bob", i, "none", ReplayPair) )
          => IF \E j \in 1..Len(accepted["bob"]) : accepted["bob"][j].nonce = wire[i].nonce
             THEN cres'.out = "REPLAY"
             ELSE cres'.out = "ok" ]_vars

(***************************************************************************)
(* C3 amended: the first submission succeeds and its nonce enters the      *)
(* window shared by decrypt and decryptBinary; a later submission is       *)
(* rejected as a replay as long as the nonce is among the Retained most    *)
(* recently accepted nonces of the context (the window drops its oldest    *)
(* EVICT_BATCH entries whenever it grows past MAX_NONCE_HISTORY).          *)
(***************************************************************************)
C3_ReplayWithinWindow ==
    [][ \A i \in 1..MaxReplayEnc :
          ( \/ Decrypt("bob", i, "none", ReplayPair)
            \/ DecryptBinary("bob", i, "none", ReplayPair) )
          => ( /\ InLastK("bob", wire[i].nonce, Retained) => cres'.out = "REPLAY"
               /\ FirstTime("bob", wire[i])
                    => ( /\ cres'.out = "ok"
                         /\ InSeq(wire[i].nonce, cipher'["bob"].usedNonces) ) ) ]_vars

\* decryptBinary rejected a nonce that decrypt had accepted: one window for both
C3_Witness ==
    /\ cres.op = "decryptBinary" /\ cres.out = "REPLAY"
    /\ \E j \in 1..Len(accepted["bob"]) :
          accepted["bob"][j] = [nonce |-> cres.nonce, op |-> "decrypt"]

(***************************************************************************)
(* C4: a text fragment whose embedded timestamp is more than STALE_MS      *)
(* older than the receiver's clock is rejected by decrypt with the expiry  *)
(* error even when its signature is valid and its nonce was never seen;    *)
(* its plaintext is never returned.                                        *)
(***************************************************************************)
C4_Expired ==
    [][ \A i \in 1..MaxEnc, tam \in {"none", "no_hmac", "stripped"}, pair \in Pairs :
          ( /\ Decrypt("bob", i, tam, pair)
            /\ ProducedUnder(wire[i], pair) )
          => IF Age(wire[i]) > STALE_MS
             THEN /\ cres'.out # "ok"
                  /\ cres'.value = NoValue
                  /\ ( /\ tam = "none" => SignatureVerifies("bob", wire[i], pair)
                       /\ tam # "stripped" => ~InSeq(wire[i].nonce, cipher["bob"].usedNonces) )
                     => cres'.out = "EXPIRED"
             ELSE cres'.out # "EXPIRED" ]_vars

\* a genuine, signed, unseen fragment one millisecond past the limit was refused
C4_Witness ==
    /\ cres.op = "decrypt" /\ cres.tam = "none" /\ cres.out = "EXPIRED"
    /\ now = T0 + STALE_MS + 1
    /\ InSeq(cres.nonce, cipher["bob"].usedNonces)

(***************************************************************************)
(* Properties of the relay's HTTP admission.                               *)
(***************************************************************************)

\* the alphabet of room keys: upper-case letters and digits without I, O, 0 and 1
RestrictedAlphabet == UpperAlnum \ {"I", "O", "0", "1"}

(***************************************************************************)
(* C5: create-room never overwrites or duplicates a room: the key it       *)
(* inserts has KEY_LEN characters of the restricted alphabet and is not in *)
(* the registry at the moment of insertion, every other room is left as it *)
(* was, and when the key drawn is still taken after MAX_KEY_ATTEMPTS draws *)
(* (and only then) the request fails with an error and the registry is     *)
(* unchanged.                                                              *)
(***************************************************************************)
C5_UniqueKey ==
    [][ \A id \in 1..MaxCreates :
          CreateFinish(id, "abc123", RandomBytes)
          => /\ \A o \in KeyLoop(DOMAIN rooms, 0, GeneratedKeys(RandomBytes)) :
                   /\ o.attempts <= MAX_KEY_ATTEMPTS
                   /\ o.key \in DOMAIN rooms => o.attempts = MAX_KEY_ATTEMPTS
             /\ IF hres'.status = 200
                THEN /\ hres'.key \notin DOMAIN rooms
                     /\ DOMAIN rooms' = DOMAIN rooms \cup {hres'.key}
                     /\ \A k \in DOMAIN rooms : rooms'[k] = rooms[k]
                     /\ Len(hres'.key) = KEY_LEN
                     /\ \A i \in 1..Len(hres'.key) : hres'.key[i] \in RestrictedAlphabet
                     /\ rooms'[hres'.key].admin = NoSocket /\ rooms'[hres'.key].receiver = NoSocket
                ELSE /\ hres'.status = 500
                     /\ rooms' = rooms
                     /\ \E k \in GeneratedKeys(RandomBytes) : k \in DOMAIN rooms ]_vars

\* a create-room request failed because every draw collided, the registry intact
C5_Witness ==
    /\ hres.op = "create" /\ hres.status = 500
    /\ DOMAIN rooms = GeneratedKeys(RandomBytes)
    /\ \E k \in DOMAIN rooms : rooms[k].passwordHash # NoHash

(***************************************************************************)
(* C6: after five failed join attempts from one source (malformed key,     *)
(* unknown key or wrong password, in sequence or overlapping), the next    *)
(* join attempt from that source, made while the first lock would still    *)
(* run, receives the lockout response.                                     *)
(***************************************************************************)
C6_LockoutAfterFive ==
    [][ \A in \in JoinInputs :
          ( /\ JoinStart("10.0.0.1", in[1], in[2])
            /\ Truthy(in[1])
            /\ failedJoins["10.0.0.1"].count >= 5
            /\ now - failedJoins["10.0.0.1"].at < LOCK_5 )
          => ( /\ hres'.id = reqSeq'
               /\ hres'.status = 429
               /\ hres'.body = "Too many failed attempts. Locked." ) ]_vars

\* five failed joins were answered one after the other and the record counts one
C6_CountLost ==
    /\ failedJoins["10.0.0.1"].count >= 5
    /\ pending = EmptyMap
    /\ "10.0.0.1" \in DOMAIN bruteForce
    /\ bruteForce["10.0.0.1"].failures = 1
    /\ bruteForce["10.0.0.1"].lockedUntil = 0

(***************************************************************************)
(* Properties of the relay's sockets.                                      *)
(***************************************************************************)

\* the room key a connection request names, as the handler reads it
RequestedRoom(key) == ToUpperCase(sanitize(key, KEY_LEN))

\* the role is held by a socket in state OPEN
HeldByOpen(key, role) ==
    /\ RequestedRoom(key) \in DOMAIN rooms
    /\ IsOpen(sock, rooms[RequestedRoom(key)][role])

\* the connection request changed nothing and notified nobody
OccupantUnaffected ==
    /\ rooms' = rooms
    /\ sock' = sock
    /\ ipConnections' = ipConnections
    /\ timers' = timers
    /\ sent' = <<>>

(***************************************************************************)
(* C7 as stated: a socket that requests a role held by a socket in state   *)
(* OPEN is closed with the role-taken code 4004 and the occupant is        *)
(* unaffected: slots, fingerprints, lastActivity and ipConnections are     *)
(* unchanged and no presence notification is sent.                         *)
(***************************************************************************)
C7_RoleTaken ==
    [][ \A originOk \in BOOLEAN, key \in ConnectKeys, role \in Roles, fp \in Fingerprints :
          ( /\ Connect(originOk, key, role, Undefined, fp, "10.0.0.1")
            /\ HeldByOpen(key, role) )
          => ( last'.code = 4004 /\ OccupantUnaffected ) ]_vars

(***************************************************************************)
(* C7 amended: a socket that comes from an allowed origin and from a       *)
(* source below the connection cap and requests a role held by a socket in *)
(* state OPEN is closed with 4004; whatever code a requester of a held     *)
(* role is closed with (4003 for its origin, 4006 for its source, 4004),   *)
(* the occupant is unaffected.                                             *)
(***************************************************************************)
C7_RoleTakenAfterGuards ==
    [][ \A originOk \in BOOLEAN, key \in ConnectKeys, role \in Roles, fp \in Fingerprints :
          ( /\ Connect(originOk, key, role, Undefined, fp, "10.0.0.1")
            /\ HeldByOpen(key, role) )
          => ( /\ OccupantUnaffected
               /\ last'.code = IF ~originOk THEN 4003
                               ELSE IF isIPOverLimit("10.0.0.1") THEN 4006
                               ELSE 4004 ) ]_vars

\* a request for the one held role of a room was closed with 4004
C7_Witness ==
    /\ last.op = "connect" /\ last.code = 4004
    /\ \E k \in DOMAIN rooms :
          /\ IsOpen(sock, rooms[k].admin)
          /\ rooms[k].receiver = NoSocket
          /\ rooms[k].fingerprints.admin # <<>>

(***************************************************************************)
(* C8: in every reachable state of the relay, under any interleaving of    *)
(* connect, close initiation, close event, heartbeat termination and       *)
(* sweep, each room has at most one admitted socket in state OPEN per      *)
(* role.                                                                   *)
(***************************************************************************)
C8_OneOpenPerRole ==
    \A k \in DOMAIN rooms, r \in Roles :
        Cardinality({ s \in DOMAIN sock :
                        sock[s].readyState = "OPEN" /\ sock[s].roomKey = k /\ sock[s].role = r }) <= 1

\* two OPEN admins of one room, the first of them no longer in the slot
C8_TwoAdmins ==
    \E k \in DOMAIN rooms, s1 \in DOMAIN sock, s2 \in DOMAIN sock :
        /\ s1 < s2
        /\ IsOpen(sock, s1) /\ IsOpen(sock, s2)
        /\ sock[s1].roomKey = k /\ sock[s2].roomKey = k
        /\ sock[s1].role = "admin" /\ sock[s2].role = "admin"
        /\ rooms[k].admin = s2

\* the sockets of a room: admitted with its key, their close event not yet processed
SocketsOf(k) == { s \in DOMAIN sock : sock[s].roomKey = k }

\* the notification the sweep sends to a socket of an idle room
InactivityNotice(s) == Frame(s, "room_end", Absent, "server", <<>>, NoPayload, "inactivity")

(***************************************************************************)
(* C9: a room that has been idle for more than IDLE_MS is force-ended at   *)
(* the next sweep: the room is removed and every OPEN socket bound to it   *)
(* is sent room_end with reason inactivity and closed with code 4007.      *)
(***************************************************************************)
C9_IdleRoomEnded ==
    [][ Sweep
        => \A k \in DOMAIN rooms :
              now - rooms[k].lastActivity > IDLE_MS
              => /\ k \notin DOMAIN rooms'
                 /\ \A s \in SocketsOf(k) :
                       IsOpen(sock, s)
                       => /\ sock'[s].readyState = "CLOSING"
                          /\ sock'[s].code = 4007
                          /\ \E i \in 1..Len(sent') : sent'[i] = InactivityNotice(s) ]_vars

\* the sweep removed an idle room and left an OPEN socket of it open and unnotified
C9_LeftOpen ==
    /\ last.op = "sweep"
    /\ \E i \in 1..Len(sent) : sent[i].reason = "inactivity"
    /\ \E s \in DOMAIN sock :
          /\ IsOpen(sock, s)
          /\ sock[s].roomKey \notin DOMAIN rooms
          /\ \A i \in 1..Len(sent) : sent[i].to # s

\* the slot opposite to the sender's, when the sender's room is in the registry
PeerSlot(s) ==
    IF sock[s].roomKey \in DOMAIN rooms
    THEN rooms[sock[s].roomKey][Opposite(sock[s].role)]
    ELSE NoSocket

\* the frame the relay forwards for a payload frame m of socket s
Forwarded(s, m) ==
    Frame(PeerSlot(s), m.type, m.id, sock[s].role, <<>>,
          [ciphertext |-> m.ciphertext, iv |-> m.iv, hmac |-> m.hmac, nonce |-> m.nonce], "")

(***************************************************************************)
(* C10: for every payload frame (encrypted_message, encrypted_image,       *)
(* encrypted_file) that carries ciphertext and iv and passes the rate      *)
(* limiter: if the peer slot holds a socket in state OPEN the frame is     *)
(* forwarded to it and the sender receives exactly one delivery_ack with   *)
(* the frame's id; otherwise the sender receives exactly one plain ack;    *)
(* and a payload frame reaches a socket only in the step that processes    *)
(* it, never a peer that connects later.                                   *)
(***************************************************************************)
C10_AckOrDelivery ==
    [][ /\ \A s \in 1..MaxRouteSock, m \in RouteMsgs :
              ( /\ Message(s, m)
                /\ IsOpen(sock, s)
                /\ m.type \in EncTypes /\ Present(m.ciphertext) /\ Present(m.iv)
                /\ ~isMessageRateLimited(sock[s].msgTimestamps).limited )
              => IF IsOpen(sock, PeerSlot(s))
                 THEN sent' = << Forwarded(s, m),
                                 Frame(s, "delivery_ack", m.id, "", <<>>, NoPayload, "") >>
                 ELSE sent' = << Frame(s, "ack", m.id, "", <<>>, NoPayload, "") >>
        /\ \A i \in 1..Len(sent') :
              sent'[i].type \in EncTypes
              => \E s \in 1..MaxRouteSock, m \in RouteMsgs :
                    Message(s, m) /\ sent'[i] = Forwarded(s, m) /\ IsOpen(sock, sent'[i].to) ]_vars

\* a payload frame of an OPEN socket was processed and nothing was sent to anybody
C10_NoAck ==
    /\ last.op = "message"
    /\ last.msg.type \in EncTypes /\ Present(last.msg.ciphertext) /\ Present(last.msg.iv)
    /\ IsOpen(sock, last.s)
    /\ sock[last.s].roomKey \notin DOMAIN rooms
    /\ sent = <<>>

(***************************************************************************)
(* SpecForward: two rooms side by side, the sockets of both, and the       *)
(* payload frames they send, with and without signature and nonce.         *)
(***************************************************************************)
MaxFwdSock == 3
MaxFwdFrames == 1
TwoKeys == { <<0, 0, 0, 0, 0, 0>>, <<1, 1, 1, 1, 1, 1>> }
FwdMsgs == { Msg("encrypted_message", "m1", "ct", "iv", "mac", "n1"),
             Msg("encrypted_image", "m2", "ct2", "iv2", Absent, Absent),
             Msg("encrypted_file", Absent, "ct3", "iv3", "mac3", "n3") }

ForwardNext ==
    \/ reqSeq < 2 /\ CreateStart("10.0.0.1", Undefined)
    \/ \E id \in 1..2 : CreateFinish(id, RoomSalt, TwoKeys)
    \/ \E key \in ConnectKeys, role \in Roles :
          sockSeq < MaxFwdSock /\ Connect(TRUE, key, role, Undefined, Undefined, "10.0.0.1")
    \/ \E s \in 1..MaxFwdSock : ClientClose(s)
    \/ \E s \in 1..MaxFwdSock : CloseEvent(s)
    \/ \E s \in 1..MaxFwdSock, m \in FwdMsgs :
          /\ s \in DOMAIN sock
          /\ Len(sock[s].msgTimestamps) < MaxFwdFrames
          /\ Message(s, m)

SpecForward == Init /\ [][ForwardNext]_vars

(***************************************************************************)
(* C11: every payload frame the relay sends to a socket is the frame it    *)
(* is handling: type, id, ciphertext, iv, hmac and nonce are those the     *)
(* sender sent, and the socket it goes to is not the sender, is admitted   *)
(* to the sender's room with the other role and is the socket in that      *)
(* room's slot for the other role.                                         *)
(***************************************************************************)
C11_OpaqueForward ==
    [][ \A i \in 1..Len(sent') :
           sent'[i].type \in EncTypes
           => LET s == last'.s
                  m == last'.msg
                  f == sent'[i]
              IN  /\ last'.op = "message"
                  /\ s \in DOMAIN sock /\ f.to \in DOMAIN sock
                  /\ f.type = m.type /\ f.id = m.id
                  /\ f.payload.ciphertext = m.ciphertext /\ f.payload.iv = m.iv
                  /\ f.payload.hmac = m.hmac /\ f.payload.nonce = m.nonce
                  /\ f.from = sock[s].role
                  /\ f.to # s
                  /\ sock[f.to].roomKey = sock[s].roomKey
                  /\ sock[f.to].role # sock[s].role
                  /\ sock[s].roomKey \in DOMAIN rooms
                  /\ rooms[sock[s].roomKey][sock[f.to].role] = f.to ]_vars

\* a payload frame was forwarded while an OPEN socket of the other room was connected
C11_Witness ==
    /\ last.op = "message"
    /\ \E i \in 1..Len(sent) :
          /\ sent[i].type = "encrypted_image"
          /\ sent[i].payload.hmac = Absent
          /\ \E t \in DOMAIN sock :
                /\ IsOpen(sock, t)
                /\ last.s \in DOMAIN sock
                /\ sock[t].roomKey # sock[last.s].roomKey
                /\ sock[t].roomKey \in DOMAIN rooms

(***************************************************************************)
(* SpecPassword: one room created with a password, and join-room requests  *)
(* for it from one address with no password, a password that is not a      *)
(* string, wrong passwords and the right one, as written at creation and   *)
(* with other white space, one after the other and more of them than the   *)
(* rate limiter admits.                                                    *)
(***************************************************************************)
MaxPwJoins == 11
CreatePasswords == { <<"p", "w">>, <<" ", "q", "\n">> }
JoinPasswords == { Undefined, <<>>, NotAString, <<"x">>, <<" ">>, <<"p", "w">>,
                   <<"p", "w", " ">>, <<" ", "q", "\n">> }
JoinKey == <<" ", "a", "a", "a", "a", "a", "a">>

PasswordNext ==
    \/ \E cp \in CreatePasswords : reqSeq < 1 /\ CreateStart("10.0.0.2", cp)
    \/ CreateFinish(1, RoomSalt, OneKey)
    \/ \E pw \in JoinPasswords :
          /\ rooms # EmptyMap /\ reqSeq < 1 + MaxPwJoins /\ pending = EmptyMap
          /\ JoinStart("10.0.0.1", JoinKey, pw)
    \/ \E id \in 1..(1 + MaxPwJoins) : JoinResume(id)
    \/ \E id \in 1..(1 + MaxPwJoins) : JoinFail(id)

SpecPassword == Init /\ [][PasswordNext]_vars

\* the room the join requests name exists and was created with password cp
CreatedWith(cp) ==
    LET k == ToUpperCase(sanitize(JoinKey, KEY_LEN))
    IN  /\ k \in DOMAIN rooms
        /\ rooms[k].passwordHash # NoHash
        /\ rooms[k].passwordHash = CreatePasswordHash(cp)

\* this step answers a join request that carried password pw
Answered(pw) ==
    /\ hres' # hres
    /\ hres'.op = "join"
    /\ IF hres'.id \in DOMAIN pending
       THEN pending[hres'.id].password = pw
       ELSE JoinStart("10.0.0.1", JoinKey, pw)

\* the answer the password decides, for a room created with cp and a join with pw
PasswordOutcome(cp, pw) ==
    LET k == ToUpperCase(sanitize(JoinKey, KEY_LEN))
    IN  IF ~Truthy(pw) \/ ~IsString(pw)
        THEN hres'.status = 401 /\ hres'.body = "Password required." /\ hres'.salt = ""
        ELSE IF sanitize(pw, 128) = sanitize(cp, 128)
        THEN hres'.status = 200 /\ hres'.key = k /\ hres'.salt = rooms[k].salt
        ELSE hres'.status = 401 /\ hres'.body = "Incorrect password." /\ hres'.salt = ""

(***************************************************************************)
(* C12 as stated: every answer to a join request for a password-protected  *)
(* room is decided by the password: "password required" without one,       *)
(* "incorrect password" for a wrong one, the room code and salt for the    *)
(* password given at creation; no error response carries the salt.         *)
(***************************************************************************)
C12_PasswordDecides ==
    [][ \A cp \in CreatePasswords, pw \in JoinPasswords :
           (CreatedWith(cp) /\ Answered(pw)) => PasswordOutcome(cp, pw) ]_vars

(***************************************************************************)
(* C12 for the requests the lockout and the rate limiter let through (the  *)
(* ones suspended at the await of line 213): their answer is decided by    *)
(* the password as above; the others are answered 429 without the salt.    *)
(***************************************************************************)
C12_PasswordDecidesWhenAdmitted ==
    [][ \A cp \in CreatePasswords, pw \in JoinPasswords :
           (CreatedWith(cp) /\ Answered(pw))
           => IF hres'.id \in DOMAIN pending
              THEN PasswordOutcome(cp, pw)
              ELSE hres'.status = 429 /\ hres'.salt = "" /\ hres'.key = <<>> ]_vars

\* the room was created with " q\n"; a join with that password got the salt after
\* joins that were told "Password required." and "Incorrect password."
C12_Witness ==
    /\ CreatePasswordHash(<<" ", "q", "\n">>) = hashPassword(<<"q">>)
    /\ \E k \in DOMAIN rooms : rooms[k].passwordHash = hashPassword(<<"q">>)
    /\ hres.op = "join" /\ hres.status = 200 /\ hres.salt = RoomSalt
    /\ failedJoins["10.0.0.1"].count >= 1
    /\ joinAttempts["10.0.0.1"].count >= 3

(***************************************************************************)
(* SpecRate: a run of create-room requests from two addresses, or a run    *)
(* of join-room requests from one, arriving in bursts around the end of a  *)
(* rate window; the requests stay suspended at their await, so that        *)
(* pending shows the requests the limiter admitted and when.               *)
(***************************************************************************)
MaxRateCreates == 7
MaxRateJoins == 12
MaxRateTicks == 2
RateTicks == {1, RATE_WINDOW}

RateNext ==
    \/ \E ip \in IPs :
          reqSeq < MaxRateCreates /\ joinAttempts = EmptyMap /\ CreateStart(ip, Undefined)
    \/ reqSeq < MaxRateJoins /\ rateLimits = EmptyMap /\ JoinStart("10.0.0.1", JoinKey, Undefined)
    \/ \E d \in RateTicks : ticks < MaxRateTicks /\ Tick(d)

SpecRate == Init /\ [][RateNext]_vars

\* the requests of one kind from one address the limiter admitted in the 60 s from time t on
AdmittedFrom(op, ip, t) ==
    { id \in DOMAIN pending : /\ pending[id].op = op
                              /\ pending[id].ip = ip
                              /\ pending[id].at >= t
                              /\ pending[id].at < t + RATE_WINDOW }

(***************************************************************************)
(* C13: in every interval of 60 seconds, wherever it starts, the limiter   *)
(* admits at most 5 create-room requests and at most 10 join-room requests *)
(* of one source address.                                                  *)
(***************************************************************************)
C13_SlidingWindow ==
    \A id \in DOMAIN pending :
        LET r == pending[id]
        IN  Cardinality(AdmittedFrom(r.op, r.ip, r.at))
               <= (IF r.op = "create" THEN CREATE_MAX ELSE JOIN_MAX)

\* six create-room requests of one address, admitted within two milliseconds
C13_SixInOneWindow ==
    \E ip \in IPs, t \in {T0 + RATE_WINDOW} :
        /\ now = t + 1
        /\ Cardinality({ id \in AdmittedFrom("create", ip, t) : pending[id].at <= t + 1 }) > CREATE_MAX

(***************************************************************************)
(* SpecCap: two rooms and connections to both from one address, with       *)
(* allowed and foreign origins and with a role that does not exist; the    *)
(* sockets close in two steps, so that the address holds sockets in both   *)
(* rooms and sockets that are closing.                                     *)
(***************************************************************************)
MaxCapSock == 4
CapRoles == Roles \cup {"observer"}

CapNext ==
    \/ reqSeq < 2 /\ CreateStart("10.0.0.1", Undefined)
    \/ \E id \in 1..2 : CreateFinish(id, RoomSalt, TwoKeys)
    \/ \E originOk \in BOOLEAN, key \in ConnectKeys, role \in CapRoles :
          sockSeq < MaxCapSock /\ Connect(originOk, key, role, Undefined, Undefined, "10.0.0.1")
    \/ \E s \in 1..MaxCapSock : ClientClose(s)
    \/ \E s \in 1..MaxCapSock : CloseEvent(s)

SpecCap == Init /\ [][CapNext]_vars

\* the admitted sockets of an address: from admission to their close event
AdmittedOf(sk, ip) == { s \in DOMAIN sk : sk[s].ip = ip }

\* a connection arrives from address ip
Arrives(originOk, role, ip) ==
    \E key \in ConnectKeys : Connect(originOk, key, role, Undefined, Undefined, ip)

\* the arriving connection was refused: no socket admitted, no slot bound, no count changed
Refused == sock' = sock /\ rooms' = rooms /\ ipConnections' = ipConnections /\ last'.code # 0

(***************************************************************************)
(* C14 as stated: an address never has more than 3 admitted sockets, and   *)
(* a connection that arrives when its address has 3 is closed with 4006    *)
(* and binds no slot.                                                      *)
(***************************************************************************)
C14_OverLimit4006 ==
    [][ /\ \A ip \in IPs : Cardinality(AdmittedOf(sock', ip)) <= MAX_CONNECTIONS_PER_IP
        /\ \A originOk \in BOOLEAN, role \in CapRoles, ip \in IPs :
              ( /\ Arrives(originOk, role, ip)
                /\ Cardinality(AdmittedOf(sock, ip)) >= MAX_CONNECTIONS_PER_IP )
              => Refused /\ last'.code = 4006 ]_vars

(***************************************************************************)
(* C14 with the order of the tests: an address never has more than 3       *)
(* admitted sockets, in whatever rooms; a connection that arrives when its *)
(* address has 3 binds no slot and is closed, with 4003 when its origin is *)
(* not allowed, else with 4000 when its role is not a role, else with      *)
(* 4006.                                                                   *)
(***************************************************************************)
C14_OverLimitRefused ==
    [][ /\ \A ip \in IPs : /\ Cardinality(AdmittedOf(sock', ip)) <= MAX_CONNECTIONS_PER_IP
                           /\ Cardinality(AdmittedOf(sock', ip))
                                 = (IF ip \in DOMAIN ipConnections' THEN ipConnections'[ip] ELSE 0)
        /\ \A originOk \in BOOLEAN, role \in CapRoles, ip \in IPs :
              ( /\ Arrives(originOk, role, ip)
                /\ Cardinality(AdmittedOf(sock, ip)) >= MAX_CONNECTIONS_PER_IP )
              => /\ Refused
                 /\ last'.code = (IF ~originOk THEN 4003
                                  ELSE IF role \notin Roles THEN 4000 ELSE 4006) ]_vars

\* an address with three admitted sockets over both rooms had a fourth connection closed with 4006
C14_Witness ==
    /\ last.op = "connect" /\ last.code = 4006
    /\ \E ip \in IPs :
          /\ Cardinality(AdmittedOf(sock, ip)) = MAX_CONNECTIONS_PER_IP
          /\ Cardinality({ sock[s].roomKey : s \in AdmittedOf(sock, ip) }) = 2

(***************************************************************************)
(* SpecEnd: one room, its sockets, payload and room_end frames, and a      *)
(* join-room request that may come before or after the room has ended.     *)
(***************************************************************************)
MaxEndSock == 4
MaxEndFrames == 1
EndMsg == Msg("room_end", Absent, Absent, Absent, Absent, Absent)
EndMsgs == { EndMsg, Msg("encrypted_message", "m1", "ct", "iv", "mac", "n1") }

EndNext ==
    \/ reqSeq < 1 /\ CreateStart("10.0.0.1", Undefined)
    \/ CreateFinish(1, RoomSalt, OneKey)
    \/ \E role \in Roles :
          sockSeq < MaxEndSock /\ Connect(TRUE, RoomKeyParam, role, Undefined, Undefined, "10.0.0.1")
    \/ \E s \in 1..MaxEndSock : ClientClose(s)
    \/ \E s \in 1..MaxEndSock : CloseEvent(s)
    \/ \E s \in 1..MaxEndSock, m \in EndMsgs :
          /\ s \in DOMAIN sock
          /\ Len(sock[s].msgTimestamps) < MaxEndFrames
          /\ Message(s, m)
    \/ reqSeq = 1 /\ JoinStart("10.0.0.2", JoinKey, Undefined)
    \/ JoinResume(2)
    \/ JoinFail(2)

SpecEnd == Init /\ [][EndNext]_vars

\* the room of SpecEnd was created and is no longer in the registry
Ended == reqSeq >= 1 /\ 1 \notin DOMAIN pending /\ rooms = EmptyMap

MaxBurst == 32
MaxBurstTicks == 2
BurstTicks == {1, MSG_RATE_WINDOW - 1}
CanaryMsg == Msg("canary", Absent, Absent, Absent, Absent, Absent)
ProbeMsgs == { PingMsg, MsgArg("ping", Absent, Num(7)), CanaryMsg }
BurstMsgs == { Msg("encrypted_message", "m1", "ct", "iv", "mac", "n1") } \cup ProbeMsgs

BurstNext ==
    \/ reqSeq < 1 /\ CreateStart("10.0.0.1", Undefined)
    \/ CreateFinish(1, RoomSalt, OneKey)
    \/ \E role \in Roles :
          /\ sockSeq < 2 /\ role = (IF sockSeq = 0 THEN "admin" ELSE "receiver")
          /\ Connect(TRUE, RoomKeyParam, role, Undefined, Undefined, "10.0.0.1")
    \/ \E m \in BurstMsgs :
          /\ 1 \in DOMAIN sock
          /\ Len(sock[1].processed) < MaxBurst
          /\ Message(1, m)
    \/ \E d \in BurstTicks : sockSeq >= 1 /\ ticks < MaxBurstTicks /\ Tick(d)

SpecBurst == Init /\ [][BurstNext]_vars

\* the frames of socket s that went past the limiter less than a second before time t
ProcessedLately(sk, s, t) ==
    { j \in 1..Len(sk[s].processed) : t - sk[s].processed[j] < MSG_RATE_WINDOW }

(***************************************************************************)
(* C16: per connection, at most 30 frames other than canary and ping go    *)
(* past the limiter in any interval of one second (an interval with more   *)
(* would have more than 30 in the second that ends with its last frame, so *)
(* the second that ends now is the one to count); a frame that arrives     *)
(* when 30 went past in the last second is answered "Slow down", leaves    *)
(* the rooms unchanged but for lastActivity, is sent to nobody else, is    *)
(* not recorded in the window, and leaves every other socket as it was; a  *)
(* frame that arrives when fewer went past is not answered "Slow down".    *)
(***************************************************************************)
C16_ThirtyPerSecond ==
    [][ /\ \A s \in DOMAIN sock' :
              Cardinality(ProcessedLately(sock', s, now')) <= MSG_RATE_MAX
        /\ \A s \in 1..2, m \in BurstMsgs :
              (Message(s, m) /\ m.type \notin {"canary", "ping"})
              => LET k == sock[s].roomKey
                     slowDown == Frame(s, "error", Absent, "", <<>>, NoPayload, "Slow down")
                 IN  IF Cardinality(ProcessedLately(sock, s, now)) >= MSG_RATE_MAX
                     THEN /\ sent' = << slowDown >>
                          /\ rooms' = [rooms EXCEPT ![k].lastActivity = now]
                          /\ sock'[s].processed = sock[s].processed
                          /\ Len(sock'[s].msgTimestamps) <= Len(sock[s].msgTimestamps)
                          /\ sock'[s].readyState = sock[s].readyState
                          /\ \A t \in DOMAIN sock \ {s} : sock'[t] = sock[t]
                     ELSE /\ \A i \in 1..Len(sent') : sent'[i] # slowDown
                          /\ sock'[s].processed = Append(sock[s].processed, now) ]_vars

\* the admin was told to slow down, and a millisecond later, the window past, a frame went through
C16_Witness ==
    /\ 1 \in DOMAIN sock
    /\ Len(sock[1].processed) = MSG_RATE_MAX + 1
    /\ sock[1].processed[MSG_RATE_MAX] = T0
    /\ sock[1].processed[MSG_RATE_MAX + 1] = T0 + MSG_RATE_WINDOW
    /\ rooms[sock[1].roomKey].lastActivity = T0 + MSG_RATE_WINDOW
    /\ \E i \in 1..Len(sent) : sent[i].type = "delivery_ack"

(***************************************************************************)
(* The client transport under the relay's close codes: the application     *)
(* connects when it has no socket, the relay admits, refuses or drops the  *)
(* connection, and the runtime delivers events and fires timers in any     *)
(* order.                                                                  *)
(***************************************************************************)
\* The codes the relay closes a socket with (server/index.js, lines 265,
\* 274-275, 278, 281, 284-285, 421-425, 465-466, 476-477)
RelayCloseCodes == {4000, 4001, 4002, 4003, 4004, 4005, 4006, 4007}

\* What a close event can carry: a relay code, a clean close, a lost connection
CloseCodes == RelayCloseCodes \cup {1000, 1006}

FatalNext ==
    \/ ws = NoWs /\ connect
    \/ send
    \/ \E s \in WsIds : WsOpen(s)
    \/ \E s \in WsIds : WsError(s)
    \/ \E s \in WsIds, type \in ServerFrames : WsMessage(s, type)
    \/ \E s \in WsIds, code \in CloseCodes : PeerClose(s, code)
    \/ \E s \in WsIds : WsClose(s)
    \/ \E t \in pendingTimers : reconnectAttempts < MaxAttempts /\ ReconnectFire(t)
    \/ \E t \in pendingTimers : IntervalFire(t)

SpecFatal == Init /\ [][FatalNext]_vars

\* The reconnect timers among the pending timers
ReconnectTimers(pt) == {t \in pt : t.kind = "reconnect"}

\* C17: when the close event of the transport's current socket carries any
\* of the relay's codes 4000..4007, the transport goes to disconnected,
\* schedules no reconnect timer and opens no socket.
C17_FatalNoReconnect ==
    [][\A s \in WsIds :
         (/\ s \in DOMAIN wsocks
          /\ ws = s
          /\ wsocks[s].handlers
          /\ wsocks[s].code \in RelayCloseCodes
          /\ WsClose(s))
         => /\ connectionHealth' = "disconnected"
            /\ ReconnectTimers(pendingTimers') \subseteq ReconnectTimers(pendingTimers)
            /\ DOMAIN wsocks' \subseteq DOMAIN wsocks]_vars

\* C17, the failing case: the current socket was closed with 4006 or 4007,
\* and the transport is reconnecting with a reconnect timer pending.
C17_Witness ==
    /\ clast.op = "close"
    /\ clast.s = ws
    /\ clast.code \in {4006, 4007}
    /\ connectionHealth = "reconnecting"
    /\ Timer(reconnectTimer, "reconnect") \in pendingTimers

(***************************************************************************)
(* The client transport against a server that never keeps a connection:    *)
(* every socket either fails before it is established or is accepted and   *)
(* then closed with a recoverable code. The application connects once.     *)
(* The runtime delivers every queued event and fires every pending timer,  *)
(* and the server resolves every attempt, which is what the fairness       *)
(* conditions say.                                                         *)
(***************************************************************************)
\* Close codes outside the relay's own: connection lost, server going away
RecoverableCodes == {1006, 1001}

RetryNext ==
    \/ ws = NoWs /\ connect
    \/ \E s \in WsIds : WsOpen(s)
    \/ \E s \in WsIds : WsError(s)
    \/ \E s \in WsIds, code \in RecoverableCodes : PeerClose(s, code)
    \/ \E s \in WsIds : WsClose(s)
    \/ \E t \in pendingTimers : ReconnectFire(t)
    \/ \E t \in pendingTimers : IntervalFire(t)

SpecRetry ==
    /\ Init
    /\ [][RetryNext]_vars
    /\ WF_vars(\E s \in WsIds : WsOpen(s) \/ WsError(s))
    /\ WF_vars(\E s \in WsIds, code \in RecoverableCodes : PeerClose(s, code))
    /\ WF_vars(\E s \in WsIds : WsClose(s))
    /\ WF_vars(\E t \in pendingTimers : ReconnectFire(t))

\* The transport is reconnecting after a close with a recoverable code
RecoverableClose ==
    /\ clast.op = "close"
    /\ clast.code \in RecoverableCodes
    /\ connectionHealth = "reconnecting"

\* The terminal state: disconnected, the listener has just been told so, no
\* reconnect timer is pending and no socket is connecting or open
TerminalDisconnected ==
    /\ connectionHealth = "disconnected"
    /\ notified # <<>>
    /\ notified[Len(notified)] = StatusMsg("disconnected")
    /\ ReconnectTimers(pendingTimers) = {}
    /\ \A s \in DOMAIN wsocks : wsocks[s].readyState = "CLOSING"

\* C18: when every attempt after a close with a recoverable code is closed
\* with a recoverable code again, also by a server that accepts the socket
\* first, the transport eventually reaches disconnected, tells the listener
\* and has no reconnect pending.
C18_RetryTerminates == RecoverableClose ~> TerminalDisconnected

\* C18, the failing case: a socket opened by a reconnect has been accepted,
\* which put the attempt counter back to 0.
C18_Witness ==
    \E s \in DOMAIN wsocks :
        /\ wsocks[s].attempt >= 1
        /\ wsocks[s].readyState = "OPEN"
        /\ reconnectAttempts = 0
        /\ connectionHealth = "connected"

(***************************************************************************)
(* The client transport under the application's teardown calls: the chat   *)
(* room's effect calls connect() and, when it is re-run or unmounted,      *)
(* disconnect() (part_001, line 266); nuke() calls forceDisconnect()       *)
(* (part_001, line 270). The server opens sockets and drops them, and the  *)
(* runtime delivers events and fires timers in any order.                  *)
(***************************************************************************)
TeardownCodes == {1006}

TeardownNext ==
    \/ connect
    \/ disconnect
    \/ forceDisconnect
    \/ \E s \in WsIds : WsOpen(s)
    \/ \E s \in WsIds : WsMessage(s, "message")
    \/ \E s \in WsIds, code \in TeardownCodes : PeerClose(s, code)
    \/ \E s \in WsIds : WsClose(s)
    \/ \E t \in pendingTimers : reconnectAttempts < MaxAttempts /\ ReconnectFire(t)

SpecTeardown == Init /\ [][TeardownNext]_vars

\* The ping and canary intervals among the pending timers
IntervalTimers(pt) == {t \in pt : t.kind \in {"ping", "canary"}}

\* C20: the close event of a socket that disconnect() closed does not
\* change connectionHealth, tells the listener nothing, schedules no
\* reconnect timer, opens no socket, and leaves the ping and canary
\* intervals of the connection made since then alone.
C20_NoLateCallback ==
    [][\A s \in WsIds :
         (/\ s \in DOMAIN wsocks
          /\ wsocks[s].byApp = "disconnect"
          /\ WsClose(s))
         => /\ connectionHealth' = connectionHealth
            /\ notified' = <<>>
            /\ ReconnectTimers(pendingTimers') \subseteq ReconnectTimers(pendingTimers)
            /\ DOMAIN wsocks' \subseteq DOMAIN wsocks
            /\ IntervalTimers(pendingTimers') = IntervalTimers(pendingTimers)
            /\ pingInterval' = pingInterval
            /\ canaryInterval' = canaryInterval]_vars

\* C20, the failing case: after disconnect() and a new connect() whose
\* socket is open, the close event of the old socket (code 1000) has put
\* the transport into reconnecting, told the listener, scheduled a
\* reconnect and cleared the intervals of the new connection.
C20_Witness ==
    /\ clast.op = "close"
    /\ clast.code = 1000
    /\ clast.s # ws
    /\ WsIsOpen(ws, wsocks)
    /\ connectionHealth = "reconnecting"
    /\ notified = <<StatusMsg("reconnecting")>>
    /\ Timer(reconnectTimer, "reconnect") \in pendingTimers
    /\ IntervalTimers(pendingTimers) = {}
    /\ pingInterval = NoTimer

\* Since the last forceDisconnect() no connect() has been called:
\* forceDisconnect() empties listeners (line 303) and only connect() sets
\* listeners.onMessage (line 172).
TornDown == ~listeners /\ clast.op # "none"

\* C19: from forceDisconnect() until the next connect(), no reconnect, ping
\* or canary timer is pending, the listener is not called,
\* connectionHealth stays disconnected, and no socket is opened: there is
\* no current socket and every socket left is closing.
C19_ForceDisconnectFinal ==
    TornDown =>
        /\ pendingTimers = {}
        /\ notified = <<>>
        /\ connectionHealth = "disconnected"
        /\ ws = NoWs
        /\ \A s \in DOMAIN wsocks : wsocks[s].readyState = "CLOSING"

\* C19, the failing case: after forceDisconnect() and before any connect(),
\* a reconnect timer has fired and opened a socket.
C19_Witness ==
    /\ TornDown
    /\ clast.op = "reconnect"
    /\ ws # NoWs
    /\ readyState(wsocks, ws) = "CONNECTING"

(***************************************************************************)
(* SpecCache: one context encrypts and decrypts, text and binary, under    *)
(* pairs that differ in the salt only, in the secret only, or in both.     *)
(***************************************************************************)
MaxCacheEnc == 2
CachePairs == Pairs \cup { <<"ROOM02", "abc123">> }

CacheNext ==
    \/ \E pair \in CachePairs : encSeq < MaxCacheEnc /\ Encrypt("alice", "hello", pair)
    \/ \E pair \in CachePairs : encSeq < MaxCacheEnc /\ EncryptBinary("alice", "file", pair)
    \/ \E i \in 1..MaxCacheEnc, pair \in CachePairs : Decrypt("alice", i, "none", pair)
    \/ \E i \in 1..MaxCacheEnc, pair \in CachePairs : DecryptBinary("alice", i, "none", pair)

SpecCache == Init /\ [][CacheNext]_vars

\* the fragment the last encryption put on the wire
LastFragment(w) == w[Len(w)]

(***************************************************************************)
(* C21: every call uses the keys derived from its own secret and salt: an  *)
(* encryption encrypts under the AES key and signs under the HMAC key of   *)
(* its pair; a decryption that verifies a signature verifies under the     *)
(* HMAC key of its pair, and one that reaches the AES-GCM step opens under *)
(* the AES key of its pair (the key a call used is the one the cache holds *)
(* when the call returns).                                                 *)
(***************************************************************************)
C21_KeysOfCall ==
    [][\A c \in Ctx, pair \in CachePairs :
         /\ (Encrypt(c, "hello", pair) \/ EncryptBinary(c, "file", pair))
               => /\ LastFragment(wire').ciphertext.k = AesKey(pair[1], pair[2])
                  /\ LastFragment(wire').hmac.k = HmacKey(pair[1], pair[2])
         /\ \A i \in 1..MaxCacheEnc :
               (Decrypt(c, i, "none", pair) \/ DecryptBinary(c, i, "none", pair))
               => /\ cipher'[c].cachedHmacKey = HmacKey(pair[1], pair[2])
                  /\ cres'.out \notin {"INTEGRITY", "REPLAY"}
                        => cipher'[c].cachedKey = AesKey(pair[1], pair[2])]_vars

\* C21, the failing case: a fragment encrypted under the key of one pair
\* carries a signature made with the HMAC key of another pair.
C21_Witness ==
    \E i \in 1..Len(wire) :
        \/ wire[i].hmac.k.secret # wire[i].ciphertext.k.secret
        \/ wire[i].hmac.k.salt # wire[i].ciphertext.k.salt

\* the state of a context in which nothing is cached
Cleared(st) ==
    /\ st.cachedKey = NoKey
    /\ st.cachedHmacKey = NoKey
    /\ st.cachedRoomKey = NULL
    /\ st.cachedSalt = NULL
    /\ st.messageCounter = 0
    /\ st.usedNonces = <<>>

(***************************************************************************)
(* C22: every wipeKeys call, from a state with keys, a counter and nonces  *)
(* as well as from the empty state, returns normally and leaves both keys, *)
(* the cached secret and salt cleared, the counter at 0 and the nonce      *)
(* window empty; a further call would change nothing.                      *)
(***************************************************************************)
C22_WipeIdempotent ==
    [][\A c \in Ctx :
         WipeKeys(c) => /\ Cleared(cipher'[c])
                        /\ cres'.out = "ok"
                        /\ wipeKeys(cipher'[c]) = cipher'[c]
                        /\ \A d \in Ctx \ {c} : cipher'[d] = cipher[d]]_vars

\* wipeKeys was called on the decrypting context after the other context
\* encrypted and before any later call: it is cleared, the encryptor is not
C22_Witness ==
    /\ cres.op = "wipeKeys"
    /\ cres.ctx = "bob"
    /\ Cleared(cipher["bob"])
    /\ cipher["alice"].messageCounter >= 1
    /\ cipher["alice"].cachedKey # NoKey

(***************************************************************************)
(* C23: after every call that reaches checkNonce the nonce window holds at *)
(* most MAX_NONCE_HISTORY nonces; when the call inserts a nonce into a     *)
(* full window, exactly the EVICT_BATCH oldest nonces leave it, the others *)
(* keep their order and the inserted nonce is the newest; otherwise the    *)
(* nonce is appended, and a refused nonce changes nothing.                 *)
(***************************************************************************)
C23_WindowBounded ==
    [][\A c \in Ctx, i \in 1..MaxReplayEnc :
         (Decrypt(c, i, "none", ReplayPair) \/ DecryptBinary(c, i, "none", ReplayPair))
         => LET u == cipher[c].usedNonces
                v == cipher'[c].usedNonces
                n == wire[i].nonce
            IN  /\ Len(v) <= MAX_NONCE_HISTORY
                /\ IF InSeq(n, u) THEN v = u
                   ELSE IF Len(u) + 1 > MAX_NONCE_HISTORY
                   THEN /\ Len(v) = Len(u) + 1 - EVICT_BATCH
                        /\ v[Len(v)] = n
                        /\ \A j \in 1..(Len(v) - 1) : v[j] = u[j + EVICT_BATCH]
                   ELSE v = Append(u, n)]_vars

\* a decryption has just inserted a nonce into a full window: the context
\* has accepted more nonces than the window holds, and the last one is in it
C23_Witness ==
    /\ cres.op \in {"decrypt", "decryptBinary"}
    /\ cres.out = "ok"
    /\ Len(accepted["bob"]) > MAX_NONCE_HISTORY
    /\ Len(cipher["bob"].usedNonces) = MAX_NONCE_HISTORY + 1 - EVICT_BATCH
    /\ cipher["bob"].usedNonces[Len(cipher["bob"].usedNonces)] = cres.nonce
    /\ ~InSeq(accepted["bob"][1].nonce, cipher["bob"].usedNonces)

(***************************************************************************)
(* SpecFault: two rooms side by side and everything a client can put into  *)
(* a connection request and into a frame: keys and roles that are missing  *)
(* or malformed, nicknames with and without a "%", frames that do not      *)
(* parse, frames without the fields of their type, frames of unknown type. *)
(***************************************************************************)
MaxFaultSock == 3
MaxFaultFrames == 1
FaultKeys == ConnectKeys \cup { Undefined, <<"a", "!", "a", "a", "a", "a">> }
FaultRoles == Roles \cup { "guest" }
FaultNicknames == { Undefined, <<"%", "4", "1">>, <<"1", "0", "0", "%">>, <<"%", "F", "F">> }
FaultFingerprints == { Undefined }
FaultMsgs == { NoMsg,
               Msg(TooLarge, Absent, Absent, Absent, Absent, Absent),
               Msg("encrypted_message", Absent, Absent, Absent, Absent, Absent),
               MsgArg("security_alert", Absent, Num(7)),
               MsgArg("reaction", Absent, NoArg),
               MsgArg("disappear_mode", Absent, Str("30")),
               MsgArg("ping", Absent, Str("t")),
               Msg("bogus", Absent, Absent, Absent, Absent, Absent) }

FaultConnect ==
    \E originOk \in BOOLEAN, key \in FaultKeys, role \in FaultRoles,
       nickname \in FaultNicknames, fp \in FaultFingerprints :
          sockSeq < MaxFaultSock /\ Connect(originOk, key, role, nickname, fp, "10.0.0.1")

FaultMessage ==
    \E s \in 1..MaxFaultSock, m \in FaultMsgs :
       /\ s \in DOMAIN sock
       /\ Len(sock[s].msgTimestamps) < MaxFaultFrames
       /\ Message(s, m)

FaultNext ==
    \/ reqSeq < 2 /\ CreateStart("10.0.0.1", Undefined)
    \/ \E id \in 1..2 : CreateFinish(id, RoomSalt, TwoKeys)
    \/ FaultConnect
    \/ FaultMessage

SpecFault == Init /\ [][FaultNext]_vars

\* the rooms other than k and the sockets bound to them are as they were
UnrelatedUnchanged(k) ==
    /\ \A r \in DOMAIN rooms : r # k => r \in DOMAIN rooms' /\ rooms'[r] = rooms[r]
    /\ \A t \in DOMAIN sock : sock[t].roomKey # k => t \in DOMAIN sock' /\ sock'[t] = sock[t]

\* the handler returned: it rejected, dropped or relayed
Handled == last'.op \in {"connect", "message"}

(***************************************************************************)
(* C24: no client input makes the relay throw an unhandled fault: for      *)
(* every connection request (any key, role, nickname and fingerprint) and  *)
(* every inbound frame (unparseable, null, missing or wrongly typed        *)
(* fields) the handler ends by rejecting, dropping or relaying, and the    *)
(* rooms and sockets of unrelated rooms are unchanged.                     *)
(***************************************************************************)
C24_NoUnhandledFault ==
    [][/\ \A originOk \in BOOLEAN, key \in FaultKeys, role \in FaultRoles,
             nickname \in FaultNicknames, fp \in FaultFingerprints :
             Connect(originOk, key, role, nickname, fp, "10.0.0.1")
             => /\ Handled
                /\ UnrelatedUnchanged(ToUpperCase(sanitize(IF Truthy(key) THEN key ELSE <<>>, KEY_LEN)))
       /\ \A s \in 1..MaxFaultSock, m \in FaultMsgs :
             Message(s, m) => Handled /\ UnrelatedUnchanged(sock[s].roomKey)]_vars

\* the part of C24 about inbound frames
C24_FramesHandled ==
    [][\A s \in 1..MaxFaultSock, m \in FaultMsgs :
          Message(s, m) => Handled /\ UnrelatedUnchanged(sock[s].roomKey)]_vars

\* a connection request has ended the process, and with it the rooms that
\* had been created and the sockets that had been admitted
C24_Witness ==
    /\ last.op = "crash"
    /\ rooms = EmptyMap
    /\ sock = EmptyMap
    /\ sockSeq >= 2
    /\ reqSeq >= 1

(***************************************************************************)
(* C25: replay protection survives stripping of the envelope metadata: a   *)
(* (ciphertext, iv) pair that decrypt has just accepted in a context is    *)
(* rejected when it is resubmitted to that context with the outer nonce    *)
(* and the signature removed.                                              *)
(***************************************************************************)
C25_StrippedReplayRejected ==
    [][ \A i \in 1..MaxEnc, pair \in Pairs :
          ( /\ cres.op = "decrypt" /\ cres.ctx = "bob"
            /\ cres.tam \in {"none", "no_hmac"}
            /\ cres.out = "ok"
            /\ i <= Len(wire)
            /\ cres.nonce = wire[i].nonce
            /\ Decrypt("bob", i, "stripped", pair) )
          => cres'.out # "ok" ]_vars

\* a fragment whose nonce is in the window of the context was decrypted
\* again, without nonce and signature, and its plaintext returned
C25_Witness ==
    /\ cres.op = "decrypt" /\ cres.ctx = "bob"
    /\ cres.tam = "stripped"
    /\ cres.out = "ok"
    /\ Len(wire) = 1
    /\ InSeq(wire[1].nonce, cipher["bob"].usedNonces)
    /\ wire[1].ciphertext.pt.n = wire[1].nonce

(***************************************************************************)
(* SpecLock: one source whose joins fail, five at a time while they        *)
(* overlap inside the random delay, the clock passing the end of its lock, *)
(* and, while it is locked out, joins with every kind of body against a    *)
(* password-protected room.                                                *)
(***************************************************************************)
MaxLockJoins == 10
MaxLockOverlap == 5
MaxLockTicks == 1
LockTicks == {LOCK_5 + 1}
LockSource == "10.0.0.1"
UnknownRoom == <<<<"B", "B", "B", "B", "B", "B">>, Undefined>>

\* line 97: the source is locked out now
LockedOut(ip) == ip \in DOMAIN bruteForce /\ now < bruteForce[ip].lockedUntil

LockJoin ==
    \E in \in (IF LockedOut(LockSource) /\ pending = EmptyMap THEN JoinInputs ELSE {UnknownRoom}) :
       /\ reqSeq >= 1 /\ 1 \notin DOMAIN pending
       /\ reqSeq < 1 + MaxLockJoins
       /\ Cardinality(DOMAIN pending) < MaxLockOverlap
       /\ JoinStart(LockSource, in[1], in[2])

LockNext ==
    \/ reqSeq < 1 /\ CreateStart("10.0.0.2", <<"p", "w">>)
    \/ CreateFinish(1, "abc123", OneKey)
    \/ LockJoin
    \/ \E id \in 2..(1 + MaxLockJoins) : JoinResume(id)
    \/ \E id \in 2..(1 + MaxLockJoins) : JoinFail(id)
    \/ \E d \in LockTicks : ticks < MaxLockTicks /\ pending = EmptyMap /\ Tick(d)

SpecLock == Init /\ [][LockNext]_vars

\* the failed joins of a source that recordFailedJoin has been called for:
\* those answered and those waiting in the delay before their answer
Recorded(ip) ==
    failedJoins[ip].count
    + Cardinality({ id \in DOMAIN pending : /\ pending[id].op = "join"
                                            /\ pending[id].ip = ip
                                            /\ pending[id].stage # "delay" })

(***************************************************************************)
(* C26: the lockout escalates: the failure count of a source accumulates   *)
(* across join attempts and across the expiry of an earlier lock, so that  *)
(* every failed join is recorded on top of all earlier ones of the source, *)
(* the one that makes 10 locks the source for 15 minutes and the one that  *)
(* makes 15 locks it for 30 minutes.                                       *)
(***************************************************************************)
C26_Escalates ==
    [][ \A id \in 2..(1 + MaxLockJoins) :
          ( JoinResume(id) /\ Recorded(LockSource)' = Recorded(LockSource) + 1 )
          => LET n == Recorded(LockSource)'
                 entry == bruteForce'[LockSource]
             IN  /\ entry.failures = n
                 /\ n >= 15 => entry.lockedUntil = now + LOCK_15
                 /\ (n >= 10 /\ n < 15) => entry.lockedUntil = now + LOCK_10 ]_vars

\* the tenth failed join of the source has been recorded, after the lock of
\* the first five has expired: the record counts five and locks for 5 minutes
C26_Witness ==
    /\ Recorded(LockSource) = 10
    /\ now > T0 + LOCK_5
    /\ LockSource \in DOMAIN bruteForce
    /\ bruteForce[LockSource].failures = 5
    /\ bruteForce[LockSource].lockedUntil = now + LOCK_5

\* the response of line 210
LockedResponse(id) == Response("join", id, LockSource, 429, "Too many failed attempts. Locked.", <<>>, "")

(***************************************************************************)
(* C27 as stated: the lockout is checked before any other join logic:      *)
(* every join-room request from a source that is locked out is answered    *)
(* with the lockout response whatever its body, and leaves the join        *)
(* rate-limit counter, the lockout record and the rooms unchanged.         *)
(***************************************************************************)
C27_LockoutFirst ==
    [][ \A in \in JoinInputs :
          ( LockedOut(LockSource) /\ JoinStart(LockSource, in[1], in[2]) )
          => /\ hres' = LockedResponse(reqSeq')
             /\ UNCHANGED <<joinAttempts, bruteForce, rooms, pending>> ]_vars

(***************************************************************************)
(* C27: the lockout is checked right after the test that a key is present: *)
(* a join-room request from a source that is locked out is answered with   *)
(* the lockout response when its body has a key that is a non-empty string *)
(* (malformed or well-formed, of an existing room or not, with the right   *)
(* or a wrong password) and with "Key required" when it has none; either   *)
(* way the join rate-limit counter, the lockout record and the rooms are   *)
(* unchanged and the request goes no further.                              *)
(***************************************************************************)
C27_LockoutAfterKeyTest ==
    [][ \A in \in JoinInputs :
          ( LockedOut(LockSource) /\ JoinStart(LockSource, in[1], in[2]) )
          => /\ hres' = IF Truthy(in[1]) /\ IsString(in[1])
                        THEN LockedResponse(reqSeq')
                        ELSE Response("join", reqSeq', LockSource, 400, "Key required", <<>>, "")
             /\ UNCHANGED <<joinAttempts, bruteForce, rooms, pending>> ]_vars

\* a source locked out by five failed joins has just been refused a join
\* that carried a key, while the protected room exists
C27_Witness ==
    /\ LockedOut(LockSource)
    /\ hres = LockedResponse(reqSeq)
    /\ bruteForce[LockSource].failures = 5
    /\ DOMAIN rooms # {}
    /\ pending = EmptyMap

(***************************************************************************)
(* C28: decrypt fails closed in the order signature, nonce, authenticated  *)
(* decryption (and staleness, which is read from the decrypted envelope):  *)
(* the error is that of the first check that fails; a fragment             *)
(* whose signature does not verify is rejected before its nonce is         *)
(* examined, so the nonce window is unchanged, and a genuine fragment with *)
(* that nonce submitted next is accepted.                                  *)
(***************************************************************************)
C28_SignatureFirst ==
    [][ \A i \in 1..MaxEnc, tam \in Tampers, pair \in Pairs :
          ( cres'.op = "decrypt" /\ cres'.tam = tam /\ Decrypt("bob", i, tam, pair) )
          => LET f == Tamper(i, tam)
                 badSig == f.hmac # NoHmac /\ ~SignatureVerifies("bob", f, pair)
                 seen == f.nonce # 0 /\ InSeq(f.nonce, cipher["bob"].usedNonces)
                 opens == AesGcmOpens(AesKey(pair[1], pair[2]), f.iv, f.ciphertext)
             IN  /\ cres'.out = IF badSig THEN "INTEGRITY"
                                ELSE IF seen THEN "REPLAY"
                                ELSE IF ~opens THEN "DECRYPT_FAILED"
                                ELSE "ok"
                 /\ badSig => /\ cres'.value = NoValue
                              /\ cipher'["bob"].usedNonces = cipher["bob"].usedNonces
                              /\ cipher'["bob"].cachedKey = cipher["bob"].cachedKey
                 /\ ( /\ cres.op = "decrypt" /\ cres.out = "INTEGRITY"
                      /\ cres.nonce = f.nonce
                      /\ tam = "none"
                      /\ ProducedUnder(f, pair)
                      /\ SignatureVerifies("bob", f, pair)
                      /\ \A j \in 1..Len(accepted["bob"]) : accepted["bob"][j].nonce # f.nonce )
                    => cres'.out = "ok" ]_vars

\* a fragment with the nonce of a genuine one and a signature that does not
\* verify has been rejected: the window is still empty and no AES key was derived
C28_Witness ==
    /\ cres.op = "decrypt" /\ cres.ctx = "bob"
    /\ cres.tam = "ct_junk"
    /\ cres.out = "INTEGRITY"
    /\ Len(wire) >= 1
    /\ cres.nonce = wire[1].nonce
    /\ cipher["bob"].usedNonces = <<>>
    /\ cipher["bob"].cachedKey = NoKey
    /\ cipher["bob"].cachedHmacKey # NoKey

\* the order of the four checks with the clock running: staleness comes last
C28_StalenessLast ==
    [][ \A i \in 1..MaxEnc, tam \in FreshTampers, pair \in Pairs :
          ( cres'.op = "decrypt" /\ cres'.tam = tam /\ Decrypt("bob", i, tam, pair) )
          => LET f == Tamper(i, tam)
                 badSig == f.hmac # NoHmac /\ ~SignatureVerifies("bob", f, pair)
                 seen == f.nonce # 0 /\ InSeq(f.nonce, cipher["bob"].usedNonces)
                 opens == AesGcmOpens(AesKey(pair[1], pair[2]), f.iv, f.ciphertext)
             IN  cres'.out = IF badSig THEN "INTEGRITY"
                             ELSE IF seen THEN "REPLAY"
                             ELSE IF ~opens THEN "DECRYPT_FAILED"
                             ELSE IF Age(f) > STALE_MS THEN "EXPIRED"
                             ELSE "ok" ]_vars

(***************************************************************************)
(* C29: canary and ping frames are answered only to their sender, with     *)
(* canary_ack and with pong echoing the ping's t, and are never forwarded  *)
(* to the peer; they are handled before the per-connection rate limiter:   *)
(* they consume none of its budget and are never answered "Slow down",     *)
(* even when the limiter is refusing the sender's other frames.            *)
(***************************************************************************)
C29_ProbesBypassLimiter ==
    [][ \A m \in ProbeMsgs :
          Message(1, m)
          => /\ sent' = IF m.type = "canary"
                        THEN <<Frame(1, "canary_ack", Absent, "", <<>>, NoPayload, "")>>
                        ELSE <<[Frame(1, "pong", Absent, "", <<>>, NoPayload, "") EXCEPT !.arg = m.arg]>>
             /\ \A j \in 1..Len(sent') : sent'[j].to = 1 /\ sent'[j].reason # "Slow down"
             /\ sock'[1].msgTimestamps = sock[1].msgTimestamps
             /\ sock'[1].processed = sock[1].processed
             /\ sock' = sock ]_vars

\* a ping carrying t has been answered with pong to its sender alone while
\* the peer is OPEN and the limiter refuses the sender's next frame
C29_Witness ==
    /\ last.op = "message" /\ last.s = 1
    /\ last.msg = MsgArg("ping", Absent, Num(7))
    /\ sent = <<FrameArg(1, "pong", Absent, "", Num(7))>>
    /\ IsOpen(sock, 2)
    /\ isMessageRateLimited(sock[1].msgTimestamps).limited

(***************************************************************************)
(* SpecMode: one room, the sockets that come and go on it, and the         *)
(* disappear_mode frames they send, with listed and unlisted values, a     *)
(* string and no value, next to a payload frame.                           *)
(***************************************************************************)
MaxModeSock == 3
MaxModeFrames == 2
ModeMsgs == { MsgArg("disappear_mode", Absent, Num(30)),
              MsgArg("disappear_mode", Absent, Num(300)),
              MsgArg("disappear_mode", Absent, Num(7)),
              MsgArg("disappear_mode", Absent, Str("30")),
              MsgArg("disappear_mode", Absent, NoArg),
              Msg("encrypted_message", "m1", "ct", "iv", "mac", "n1") }

ModeMessage ==
    \E s \in 1..MaxModeSock, m \in ModeMsgs :
       /\ s \in DOMAIN sock
       /\ Len(sock[s].msgTimestamps) < MaxModeFrames
       /\ Message(s, m)

ModeNext ==
    \/ reqSeq < 1 /\ CreateStart("10.0.0.1", Undefined)
    \/ CreateFinish(1, RoomSalt, OneKey)
    \/ \E role \in Roles :
          sockSeq < MaxModeSock /\ Connect(TRUE, RoomKeyParam, role, Undefined, Undefined, "10.0.0.1")
    \/ \E s \in 1..MaxModeSock : ClientClose(s)
    \/ \E s \in 1..MaxModeSock : CloseEvent(s)
    \/ ModeMessage

SpecMode == Init /\ [][ModeNext]_vars

\* the value a disappear_mode frame asks for, when it is a listed one
Requested(m) == IF m.arg \in {Num(0), Num(30), Num(60), Num(300)} THEN m.arg.num ELSE 0

\* the notifications of a new value: to the receiver in the slot if it is
\* OPEN, then to the admin that sent the frame
ModeNotices(s, k, seconds) ==
    LET peer == rooms[k].receiver
        note(to) == [Frame(to, "disappear_mode", Absent, "", <<>>, NoPayload, "") EXCEPT !.arg = Num(seconds)]
    IN  (IF IsOpen(sock, peer) THEN <<note(peer)>> ELSE <<>>) \o <<note(s)>>

(***************************************************************************)
(* C30: a room's disappearing-message setting is always one of 0, 30, 60   *)
(* and 300 seconds; it changes only when a disappear_mode frame from a     *)
(* socket admitted as admin is processed, which sets the value asked for   *)
(* (0 for an unlisted one) and sends the new value to the OPEN receiver    *)
(* and to the admin; a disappear_mode frame from the receiver changes      *)
(* nothing and produces no notification.                                   *)
(***************************************************************************)
C30_DisappearMode ==
    /\ [](\A k \in DOMAIN rooms : rooms[k].disappearMode \in {0, 30, 60, 300})
    /\ [][ /\ \A k \in DOMAIN rooms \cap DOMAIN rooms' :
                rooms'[k].disappearMode # rooms[k].disappearMode
                => \E s \in DOMAIN sock, m \in ModeMsgs :
                      /\ m.type = "disappear_mode"
                      /\ sock[s].role = "admin" /\ sock[s].roomKey = k
                      /\ Message(s, m)
           /\ \A s \in 1..MaxModeSock, m \in ModeMsgs :
                ( Message(s, m) /\ m.type = "disappear_mode" /\ sock[s].roomKey \in DOMAIN rooms )
                => LET k == sock[s].roomKey
                   IN  IF sock[s].role = "admin"
                       THEN /\ rooms'[k].disappearMode = Requested(m)
                            /\ sent' = ModeNotices(s, k, Requested(m))
                       ELSE /\ rooms'[k].disappearMode = rooms[k].disappearMode
                            /\ sent' = <<>> ]_vars

\* the admin has set 30 seconds and the OPEN receiver and the admin were told
C30_Witness ==
    /\ last.op = "message"
    /\ last.msg = MsgArg("disappear_mode", Absent, Num(30))
    /\ last.s \in DOMAIN sock /\ sock[last.s].role = "admin"
    /\ \E k \in DOMAIN rooms :
          /\ rooms[k].disappearMode = 30
          /\ IsOpen(sock, rooms[k].receiver)
          /\ sent = ModeNotices(last.s, k, 30)
          /\ Len(sent) = 2

(***************************************************************************)
(* SpecLife: one room and its sockets, pings that keep it active, the      *)
(* empty-room timer, the sweep, and a clock that reaches the hard lifetime *)
(* cap.                                                                    *)
(***************************************************************************)
MaxLifeSock == 3
MaxLifeTicks == 2
LifeTicks == {EMPTY_GRACE_MS, HARD_MS + 1}

LifeNext ==
    \/ reqSeq < 1 /\ CreateStart("10.0.0.1", Undefined)
    \/ CreateFinish(1, RoomSalt, OneKey)
    \/ \E role \in Roles :
          sockSeq < MaxLifeSock /\ Connect(TRUE, RoomKeyParam, role, Undefined, Undefined, "10.0.0.1")
    \/ \E s \in 1..MaxLifeSock : ClientClose(s)
    \/ \E s \in 1..MaxLifeSock : CloseEvent(s)
    \/ \E s \in 1..MaxLifeSock : Message(s, PingMsg)
    \/ \E t \in timers : TimerFire(t)
    \/ \E d \in LifeTicks : ticks < MaxLifeTicks /\ Tick(d)
    \/ Sweep

SpecLife == Init /\ [][LifeNext]_vars

\* the room is past the hard lifetime cap and has been active lately
ActivePastCap(k) ==
    /\ now - rooms[k].createdAt > HARD_MS
    /\ now - rooms[k].lastActivity <= IDLE_MS

\* the socket is the one its room's slot for its role refers to
Occupant(s) ==
    /\ sock[s].roomKey \in DOMAIN rooms
    /\ rooms[sock[s].roomKey][sock[s].role] = s

(***************************************************************************)
(* C31: a room older than the hard lifetime cap is force-ended at the next *)
(* sweep regardless of activity: a room whose sockets keep sending frames  *)
(* is removed from the registry and every OPEN socket bound to it is       *)
(* closed with the room-expired code 4005.                                 *)
(***************************************************************************)
C31_ForceExpired ==
    [][ Sweep
        => \A k \in DOMAIN rooms :
              ActivePastCap(k)
              => /\ k \notin DOMAIN rooms'
                 /\ \A s \in SocketsOf(k) :
                       IsOpen(sock, s)
                       => /\ sock'[s].readyState = "CLOSING"
                          /\ sock'[s].code = 4005 ]_vars

\* the same for the OPEN sockets that occupy their slot
C31_OccupantsExpired ==
    [][ Sweep
        => \A k \in DOMAIN rooms :
              ActivePastCap(k)
              => /\ k \notin DOMAIN rooms'
                 /\ \A s \in SocketsOf(k) :
                       ( IsOpen(sock, s) /\ Occupant(s) )
                       => /\ sock'[s].readyState = "CLOSING"
                          /\ sock'[s].code = 4005 ]_vars

\* the sweep removed a room past the cap and left an OPEN socket of it open
C31_LeftOpen ==
    /\ last.op = "sweep"
    /\ now - T0 > HARD_MS
    /\ rooms = EmptyMap
    /\ \E s \in DOMAIN sock :
          /\ IsOpen(sock, s)
          /\ sock[s].code = 0

\* the sweep closed the occupant of an active room past the cap with 4005
C31_Expired ==
    /\ last.op = "sweep"
    /\ rooms = EmptyMap
    /\ \E s \in DOMAIN sock :
          /\ sock[s].readyState = "CLOSING" /\ sock[s].code = 4005

(***************************************************************************)
(* SpecEmpty: one room, created and connected to or not, whose sockets     *)
(* come and go during a first half minute; after that only time passes.    *)
(* The clock runs to a horizon past the inactivity limit, a timer fires    *)
(* when it is due, and the sweep interval keeps firing.                    *)
(***************************************************************************)
MaxEmptySock == 3
EmptyTicks == {EMPTY_GRACE_MS, IDLE_MS + 1}
EmptyHorizon == T0 + 2 * EMPTY_GRACE_MS + IDLE_MS + 1

\* the clients act during the first half minute
Early == now <= T0 + EMPTY_GRACE_MS

\* half minutes pass while the clients act and the timers are pending, then
\* the time it takes a room to become idle
EmptyTick ==
    \E d \in EmptyTicks :
       /\ now + d <= EmptyHorizon
       /\ d = EMPTY_GRACE_MS => now < T0 + 2 * EMPTY_GRACE_MS
       /\ Tick(d)

EmptyTimer == \E t \in timers : TimerFire(t)

EmptyNext ==
    \/ reqSeq < 1 /\ Early /\ CreateStart("10.0.0.1", Undefined)
    \/ Early /\ CreateFinish(1, RoomSalt, OneKey)
    \/ \E role \in Roles :
          /\ sockSeq < MaxEmptySock /\ Early
          /\ Connect(TRUE, RoomKeyParam, role, Undefined, Undefined, "10.0.0.1")
    \/ \E s \in 1..MaxEmptySock : Early /\ ClientClose(s)
    \/ \E s \in 1..MaxEmptySock : Early /\ CloseEvent(s)
    \/ \E s \in 1..MaxEmptySock : Message(s, PingMsg)
    \/ EmptyTimer
    \/ EmptyTick
    \/ Sweep

SpecEmpty ==
    /\ Init
    /\ [][EmptyNext]_vars
    /\ WF_vars(EmptyTimer)
    /\ WF_vars(EmptyTick)
    /\ WF_vars(Sweep)

\* the room is in the registry and none of its slots refers to a socket
EmptyRoom(k) ==
    /\ k \in DOMAIN rooms
    /\ rooms[k].admin = NoSocket
    /\ rooms[k].receiver = NoSocket

(***************************************************************************)
(* C32: every room with no occupied slot is eventually deleted: a room     *)
(* that was created and never connected to, and a room whose last socket   *)
(* has disconnected, is removed from the registry, by the empty-room timer *)
(* or by the sweep, unless a socket binds to it in the meantime.           *)
(***************************************************************************)
C32_EmptyRoomDeleted ==
    EmptyRoom(ToUpperCase(RoomKeyParam))
    ~> ( \/ ToUpperCase(RoomKeyParam) \notin DOMAIN rooms
         \/ ~EmptyRoom(ToUpperCase(RoomKeyParam)) )

\* the sweep has removed the room that nobody ever connected to
C32_Witness ==
    /\ last.op = "sweep"
    /\ reqSeq = 1 /\ pending = EmptyMap
    /\ sockSeq = 0
    /\ rooms = EmptyMap
    /\ now > T0 + IDLE_MS

\* the timer has removed the room half a minute after its last socket left
C32_TimerWitness ==
    /\ last.op = "timer"
    /\ sockSeq >= 1 /\ sock = EmptyMap
    /\ rooms = EmptyMap
    /\ now <= T0 + 2 * EMPTY_GRACE_MS

(***************************************************************************)
(* SpecLeave: one room, sockets from two addresses that join it under      *)
(* different nicknames and leave, and a room_end frame that removes the    *)
(* room before its sockets' close events.                                  *)
(***************************************************************************)
MaxLeaveSock == 3
LeaveNicknames == { Undefined, <<"B", "o", "b">> }

LeaveNext ==
    \/ reqSeq < 1 /\ CreateStart("10.0.0.1", Undefined)
    \/ CreateFinish(1, RoomSalt, OneKey)
    \/ \E role \in Roles, nickname \in LeaveNicknames, ip \in IPs :
          sockSeq < MaxLeaveSock /\ Connect(TRUE, RoomKeyParam, role, nickname, Undefined, ip)
    \/ \E s \in 1..MaxLeaveSock : ClientClose(s)
    \/ \E s \in 1..MaxLeaveSock : CloseEvent(s)
    \/ \E s \in 1..MaxLeaveSock :
          /\ s \in DOMAIN sock /\ sock[s].msgTimestamps = <<>>
          /\ Message(s, EndMsg)

SpecLeave == Init /\ [][LeaveNext]_vars

\* the connection count of the address after one of its sockets has gone
OneLess(ip) ==
    IF ipConnections[ip] = 1
    THEN MapDelete(ipConnections, ip)
    ELSE [ipConnections EXCEPT ![ip] = @ - 1]

(***************************************************************************)
(* C33: when the close event of an admitted socket is processed while its  *)
(* room exists, the OPEN socket in the peer slot (if any) is sent exactly  *)
(* one peer_left with the leaver's role and nickname, the slot of the      *)
(* leaver's role is released and the connection count of its address is    *)
(* decremented; when the room no longer exists only the count changes.     *)
(***************************************************************************)
C33_PeerLeft ==
    [][ \A s \in 1..MaxLeaveSock :
          CloseEvent(s)
          => LET k == sock[s].roomKey
                 role == sock[s].role
             IN  /\ sock[s].ip \in DOMAIN ipConnections
                 /\ ipConnections' = OneLess(sock[s].ip)
                 /\ IF k \in DOMAIN rooms
                    THEN LET peer == rooms[k][CHOOSE r \in Roles : r # role]
                         IN  /\ sent' = IF IsOpen(sock, peer)
                                        THEN <<Frame(peer, "peer_left", Absent, role,
                                                     sock[s].nickname, NoPayload, "")>>
                                        ELSE <<>>
                             /\ rooms' = [rooms EXCEPT ![k] = [@ EXCEPT ![role] = NoSocket]]
                    ELSE /\ sent' = <<>>
                         /\ UNCHANGED <<rooms, timers>> ]_vars

\* Bob has left and the OPEN peer, from the other address, was told so
C33_Witness ==
    /\ last.op = "close"
    /\ Len(sent) = 1
    /\ sent[1].type = "peer_left" /\ sent[1].nickname = <<"B", "o", "b">>
    /\ IsOpen(sock, sent[1].to)
    /\ sock[sent[1].to].nickname = ANON
    /\ DOMAIN ipConnections = {sock[sent[1].to].ip}
    /\ \E k \in DOMAIN rooms : rooms[k][sent[1].from] = NoSocket

\* the close event of a socket whose room had been ended changed the count alone
C33_GoneWitness ==
    /\ last.op = "close" /\ last.code = 4002
    /\ rooms = EmptyMap
    /\ sent = <<>>
    /\ timers = {}

\* the two failures of a join whose key is well formed
NotFound == "Invalid key. No room found."
WrongPassword == "Incorrect password."
Enumerable == { NotFound, WrongPassword }

\* the awaits of randomDelay() a suspended join request has reached
DelaysReached(r) == IF r.stage = "delay" THEN 1 ELSE 2

\* the failures on record for a source
Failures(bf, ip) == IF ip \in DOMAIN bf THEN bf[ip].failures ELSE 0

(***************************************************************************)
(* C34: the "room not found" and the "wrong password" paths of join-room   *)
(* pass through the same delays: either response is given by a request     *)
(* that is resuming from its second random delay, which it entered from    *)
(* the first one in the step that recorded the failed join; no other       *)
(* response waits a second time.                                           *)
(***************************************************************************)
C34_SameDelays ==
    [][ \A id \in 1..MaxJoins :
          /\ (hres' # hres /\ hres'.id = id /\ hres'.op = "join" /\ hres'.body \in Enumerable)
             => /\ id \in DOMAIN pending /\ id \notin DOMAIN pending'
                /\ DelaysReached(pending[id]) = 2
                /\ pending[id].stage = hres'.body
                /\ hres'.status = (IF hres'.body = NotFound THEN 404 ELSE 401)
          /\ (id \in DOMAIN pending' /\ pending'[id].op = "join" /\ DelaysReached(pending'[id]) = 2
              /\ (id \notin DOMAIN pending \/ pending[id] # pending'[id]))
             => /\ id \in DOMAIN pending
                /\ DelaysReached(pending[id]) = 1
                /\ pending'[id].stage \in Enumerable
                /\ pending'[id].stage = NotFound
                     <=> ToUpperCase(sanitize(pending[id].key, KEY_LEN)) \notin DOMAIN rooms
                /\ Failures(bruteForce', pending[id].ip) = Failures(bruteForce, pending[id].ip) + 1
                /\ hres' = hres
          /\ (id \in DOMAIN pending' /\ pending'[id].op = "join" /\ DelaysReached(pending'[id]) = 1
              /\ (id \notin DOMAIN pending \/ pending[id] # pending'[id]))
             => /\ id \notin DOMAIN pending
                /\ reqSeq' = id
          /\ (hres' # hres /\ hres'.id = id /\ hres'.op = "join" /\ hres'.body \notin Enumerable
              /\ id \in DOMAIN pending)
             => DelaysReached(pending[id]) = 1 ]_vars

\* a request for an unknown room and one with a wrong password for the room
\* that exists wait in the second delay at the same time, both on record
C34_Witness ==
    /\ \E a, b \in DOMAIN pending :
          /\ pending[a].op = "join" /\ pending[b].op = "join"
          /\ pending[a].stage = NotFound /\ pending[b].stage = WrongPassword
          /\ ToUpperCase(sanitize(pending[b].key, KEY_LEN)) \in DOMAIN rooms
    /\ Failures(bruteForce, "10.0.0.1") = 2

\* both failures have been answered
C34_Answered ==
    /\ hres.body = WrongPassword /\ hres.status = 401
    /\ failedJoins["10.0.0.1"].count >= 2

(***************************************************************************)
(* C35: every admitted socket in state OPEN is the occupant of its slot:   *)
(* its room is in the registry and the room's slot for the socket's role   *)
(* refers to that very socket.                                             *)
(***************************************************************************)
C35_OpenIsOccupant ==
    \A s \in DOMAIN sock : IsOpen(sock, s) => Occupant(s)

\* the close event of a replaced socket has emptied the slot of the OPEN
\* socket that replaced it
C35_Displaced ==
    /\ last.op = "close"
    /\ \E s \in DOMAIN sock :
          /\ IsOpen(sock, s)
          /\ last.s < s
          /\ sock[s].roomKey \in DOMAIN rooms
          /\ rooms[sock[s].roomKey][sock[s].role] = NoSocket

(***************************************************************************)
(* A close event of the socket that a slot refers to, and every other step *)
(* but a close event, keeps the OPEN sockets in their slots.               *)
(***************************************************************************)
C35_OtherStepsKeep ==
    [][ (C35_OpenIsOccupant /\ ~ \E s \in DOMAIN sock : CloseEvent(s) /\ ~Occupant(s))
        => C35_OpenIsOccupant' ]_vars

(***************************************************************************)
(* SpecGate: one password-protected room, join-room requests for it with   *)
(* the right and with a wrong password, and sockets that connect to it     *)
(* with or without a join.  The clock stands still, so the join counters   *)
(* are never reset.                                                        *)
(***************************************************************************)
MaxGateJoins == 2
MaxGateSock == 3
GateSource == "10.0.0.1"

GateNext ==
    \/ reqSeq < 1 /\ CreateStart("10.0.0.2", <<"p", "w">>)
    \/ CreateFinish(1, RoomSalt, OneKey)
    \/ \E in \in JoinInputs :
          /\ reqSeq >= 1 /\ pending = EmptyMap
          /\ reqSeq < 1 + MaxGateJoins
          /\ JoinStart(GateSource, in[1], in[2])
    \/ \E id \in 2..(1 + MaxGateJoins) : JoinResume(id)
    \/ \E id \in 2..(1 + MaxGateJoins) : JoinFail(id)
    \/ \E role \in Roles :
          sockSeq < MaxGateSock /\ Connect(TRUE, RoomKeyParam, role, Undefined, Undefined, GateSource)
    \/ \E s \in 1..MaxGateSock : ClientClose(s)
    \/ \E s \in 1..MaxGateSock : CloseEvent(s)

SpecGate == Init /\ [][GateNext]_vars

\* the join requests of a source that went past the rate limiter of line 211
JoinsCounted(ip) == IF ip \in DOMAIN joinAttempts THEN joinAttempts[ip].count ELSE 0

\* those of them that wait in a delay
JoinsWaiting(ip) ==
    Cardinality({ id \in DOMAIN pending : pending[id].op = "join" /\ pending[id].ip = ip })

\* a join-room request of the source has been answered with key and salt:
\* it was counted, does not wait and has not failed
JoinSucceeded(ip) == JoinsCounted(ip) > failedJoins[ip].count + JoinsWaiting(ip)

(***************************************************************************)
(* C36: the room password gates the socket: a socket is bound to the       *)
(* receiver slot of a password-protected room only if a join-room request  *)
(* with the correct password has succeeded before.                         *)
(***************************************************************************)
C36_PasswordGatesSocket ==
    \A s \in DOMAIN sock :
        (/\ sock[s].role = "receiver"
         /\ Occupant(s)
         /\ rooms[sock[s].roomKey].passwordHash # NoHash)
        => JoinSucceeded(sock[s].ip)

\* a receiver socket of the source whose only join was refused for its
\* password is bound to the protected room, next to the admin
C36_Unjoined ==
    /\ hres.op = "join" /\ hres.body = WrongPassword
    /\ JoinsCounted(GateSource) = 1 /\ failedJoins[GateSource].count = 1
    /\ \E s \in DOMAIN sock :
          /\ IsOpen(sock, s) /\ sock[s].role = "receiver" /\ sock[s].ip = GateSource
          /\ Occupant(s)
          /\ rooms[sock[s].roomKey].passwordHash = hashPassword(<<"p", "w">>)
          /\ IsOpen(sock, rooms[sock[s].roomKey].admin)

\* the counters tell a success: one is counted from the step on that answers
\* a join-room request with key and salt
C36_CountersExact ==
    [][ JoinSucceeded(GateSource)'
        <=> \/ JoinSucceeded(GateSource)
            \/ hres' # hres /\ hres'.op = "join" /\ hres'.status = 200 ]_vars

(***************************************************************************)
(* SpecWipe: alice encrypts and bob decrypts under either (secret, salt)   *)
(* pair, their calls waiting at the key derivations, and either side may   *)
(* wipe its keys at any moment.                                            *)
(***************************************************************************)
MaxWipeEnc == 2

WipeNext ==
    \/ \E P \in {"hello"}, pair \in Pairs :
          /\ encSeq + Cardinality(cipher["alice"].suspended) < MaxWipeEnc
          /\ EncryptStart("alice", P, pair)
    \/ \E call \in cipher["alice"].suspended : EncryptResume("alice", call)
    \/ \E i \in 1..MaxWipeEnc, pair \in Pairs :
          /\ cipher["bob"].suspended = {}
          /\ DecryptStart("bob", i, "none", pair)
    \/ \E call \in cipher["bob"].suspended : DecryptResume("bob", call)
    \/ \E c \in Ctx : WipeKeys(c)

SpecWipe == Init /\ [][WipeNext]_vars

\* the cached encryption key, authentication key, secret and salt are cleared
KeysCleared(st) ==
    /\ st.cachedKey = NoKey /\ st.cachedHmacKey = NoKey
    /\ st.cachedRoomKey = NULL /\ st.cachedSalt = NULL

(***************************************************************************)
(* C37: key material stays destroyed after a wipe: the step that follows   *)
(* the return of wipeKeys() in a context, when no new call has been        *)
(* started yet, leaves the cached encryption key, authentication key,      *)
(* secret and salt of the context cleared; a call that was in flight does  *)
(* not re-populate the cache when it resumes.                              *)
(***************************************************************************)
C37_StaysWiped ==
    [][ \A c \in Ctx :
          (cres.op = "wipeKeys" /\ cres.ctx = c) => KeysCleared(cipher'[c]) ]_vars

\* wipeKeys() has returned in a context that has a call in flight
C37_InFlight ==
    \E c \in Ctx :
        /\ cres.op = "wipeKeys" /\ cres.ctx = c
        /\ KeysCleared(cipher[c])
        /\ cipher[c].suspended # {}

\* wipeKeys() itself clears the four, and a call started after it finds them cleared
C37_WipeClears ==
    [][ \A c \in Ctx : WipeKeys(c) => KeysCleared(cipher'[c]) ]_vars

(***************************************************************************)
(* SpecPing: one room and its sockets over half an hour.  A connected      *)
(* client sends a ping every PING_MS (appLifecycle.js:195-199): while a    *)
(* socket of the room is OPEN the clock advances by that period, and only  *)
(* once the frames of the period have been received; with no socket OPEN   *)
(* it may pass the inactivity limit at once.  Sockets connect during the   *)
(* first two periods and leave at any time; the sweep may run at any       *)
(* moment.                                                                 *)
(***************************************************************************)
PING_MS == 15000
MaxPingSock == 2
MaxPingTicks == 124
UnknownMsg == Msg("bogus", Absent, Absent, Absent, Absent, Absent)
UntypedMsg == Msg(Absent, Absent, Absent, Absent, Absent, Absent)
PingMsgs == { PingMsg, CanaryMsg, UnknownMsg, UntypedMsg }

Connected == { s \in DOMAIN sock : IsOpen(sock, s) /\ sock[s].roomKey \in DOMAIN rooms }

\* the frames of the current period have been received
AllPinged == \A s \in Connected : rooms[sock[s].roomKey].lastActivity = now

PingTick ==
    /\ ticks < MaxPingTicks
    /\ IF Connected = {} THEN now = T0 /\ Tick(IDLE_MS + 1) ELSE AllPinged /\ Tick(PING_MS)

PingNext ==
    \/ reqSeq < 1 /\ CreateStart("10.0.0.1", Undefined)
    \/ CreateFinish(1, RoomSalt, OneKey)
    \/ \E role \in Roles :
          /\ sockSeq < MaxPingSock /\ ticks <= 1
          /\ Connect(TRUE, RoomKeyParam, role, Undefined, Undefined, "10.0.0.1")
    \/ \E s \in 1..MaxPingSock : ClientClose(s)
    \/ \E s \in 1..MaxPingSock : CloseEvent(s)
    \/ \E s \in 1..MaxPingSock, m \in PingMsgs :
          /\ s \in DOMAIN sock
          /\ m \in {PingMsg, CanaryMsg} \/ (sock[s].processed = <<>> /\ ticks <= 1)
          /\ m \in {PingMsg, CanaryMsg} => (sock[s].roomKey \in DOMAIN rooms
                                            /\ rooms[sock[s].roomKey].lastActivity < now)
          /\ Message(s, m)
    \/ \E t \in timers : TimerFire(t)
    \/ PingTick
    \/ Sweep

SpecPing == Init /\ [][PingNext]_vars

\* the step admits a socket to room k, or handles a parseable frame with a
\* string type from a socket of room k
Refreshes(k) ==
    \/ /\ last'.op = "connect" /\ last'.code = 0
       /\ sock'[last'.s].roomKey = k
    \/ /\ last'.op = "message"
       /\ sock[last'.s].roomKey = k
       /\ last'.msg.type \notin {Absent, TooLarge}

(***************************************************************************)
(* C38: a room's lastActivity is set to the current time by every          *)
(* admission of a socket to the room and by every parseable inbound frame  *)
(* with a string type from one of its sockets (canary, ping and unknown    *)
(* types included), and is changed by nothing else; so the sweep never     *)
(* ends for inactivity a room in which a connected client keeps sending    *)
(* its periodic ping.                                                      *)
(***************************************************************************)
C38_ActivityRefreshed ==
    [][ /\ \A k \in DOMAIN rooms :
             k \in DOMAIN rooms'
             => rooms'[k].lastActivity = (IF Refreshes(k) THEN now ELSE rooms[k].lastActivity)
        /\ Sweep => \A s \in Connected :
                       /\ SweepVerdict(rooms[sock[s].roomKey]) # "inactivity"
                       /\ sock'[s].code # 4007 ]_vars

\* a sweep has run more than half an hour after the room was created and has
\* kept it, with its client connected from the start
C38_Witness ==
    /\ last.op = "sweep"
    /\ \E s \in Connected :
          /\ now - rooms[sock[s].roomKey].createdAt > IDLE_MS
          /\ now - rooms[sock[s].roomKey].lastActivity <= PING_MS

\* a ping was the frame that refreshed the room
C38_PingWitness ==
    /\ last.op = "message" /\ last.msg.type = "ping"
    /\ now > T0
    /\ rooms[sock[last.s].roomKey].lastActivity = now

\* the sweep has ended, for inactivity, the room nobody was connected to
C38_IdleEnded ==
    /\ last.op = "sweep" /\ rooms = EmptyMap /\ reqSeq = 1 /\ now = T0 + IDLE_MS + 1

\* the same for the frames the rate limiter refuses, where a socket sends
\* more than MSG_RATE_MAX frames within a second
C38_RefreshedUnderLoad ==
    [][ \A k \in DOMAIN rooms :
           k \in DOMAIN rooms'
           => rooms'[k].lastActivity = (IF Refreshes(k) THEN now ELSE rooms[k].lastActivity) ]_vars

\* a frame answered with 'Slow down' has refreshed the room
C38_LimitedWitness ==
    /\ last.op = "message"
    /\ Len(sent) = 1 /\ sent[1].type = "error"
    /\ now > T0
    /\ rooms[sock[last.s].roomKey].lastActivity = now

(***************************************************************************)
(* SpecCount: one room and connections from two addresses, admitted and    *)
(* refused, whose sockets end in every way: the client closes, room_end,   *)
(* the heartbeat, the inactivity and the lifetime sweep.                   *)
(***************************************************************************)
MaxCountSock == 4
MaxCountTicks == 1
CountTicks == {IDLE_MS + 1, HARD_MS + 1}
\* origin allowed or not, key and role of a connection
CountConnects == { <<TRUE, RoomKeyParam, "admin">>, <<TRUE, RoomKeyParam, "receiver">>,
                   <<FALSE, RoomKeyParam, "admin">>, <<TRUE, RoomKeyParam, "observer">>,
                   <<TRUE, <<"B", "B", "B", "B", "B", "B">>, "admin">> }

CountNext ==
    \/ reqSeq < 1 /\ CreateStart("10.0.0.1", Undefined)
    \/ CreateFinish(1, RoomSalt, OneKey)
    \/ \E c \in CountConnects, ip \in IPs :
          /\ sockSeq < MaxCountSock
          /\ ip = "10.0.0.2" => sockSeq = 1
          /\ Connect(c[1], c[2], c[3], Undefined, Undefined, ip)
    \/ \E s \in 1..MaxCountSock : ClientClose(s)
    \/ \E s \in 1..MaxCountSock : CloseEvent(s)
    \/ \E s \in 1..MaxCountSock, m \in {EndMsg, PingMsg} :
          /\ s \in DOMAIN sock /\ sock[s].msgTimestamps = <<>>
          /\ m = PingMsg => (sock[s].roomKey \in DOMAIN rooms
                             /\ rooms[sock[s].roomKey].lastActivity < now)
          /\ Message(s, m)
    \/ ticks = 0 /\ Heartbeat
    \/ \E d \in CountTicks : ticks < MaxCountTicks /\ Tick(d)
    \/ Sweep

SpecCount == Init /\ [][CountNext]_vars

\* ipConnections.get(ip) || 0
ConnectionsOf(ip) == IF ip \in DOMAIN ipConnections THEN ipConnections[ip] ELSE 0

(***************************************************************************)
(* C39: the per-source connection counter is exact: in every reachable     *)
(* state ipConnections[ip] is the number of admitted sockets from ip whose *)
(* close event has not been processed, with no entry when that is zero; a  *)
(* connection refused at admission, with any code, does not change it, and *)
(* the close event of a socket, however the socket ended, takes one off.   *)
(***************************************************************************)
C39_CounterExact ==
    /\ [](\A ip \in IPs :
            /\ ConnectionsOf(ip) = Cardinality(AdmittedOf(sock, ip))
            /\ ip \in DOMAIN ipConnections => ipConnections[ip] > 0)
    /\ [][ /\ (last'.op = "connect" /\ last'.code # 0) => ipConnections' = ipConnections
           /\ \A s \in 1..MaxCountSock :
                 CloseEvent(s)
                 => \A ip \in IPs :
                       ConnectionsOf(ip)' = ConnectionsOf(ip) - (IF sock[s].ip = ip THEN 1 ELSE 0)
           /\ (\A s \in 1..MaxCountSock : ~CloseEvent(s))
              => \A ip \in IPs : ConnectionsOf(ip)' >= ConnectionsOf(ip) ]_vars

\* the close event of a socket that the inactivity sweep had closed left its
\* address with the one connection it still has
C39_Witness ==
    /\ last.op = "close" /\ last.code = 4007
    /\ \E ip \in IPs :
          /\ ConnectionsOf(ip) = 1
          /\ Cardinality(AdmittedOf(sock, ip)) = 1

\* the other ways a socket ends, each followed by its close event
C39_ClientWitness == last.op = "close" /\ last.code = 1000 /\ ipConnections = EmptyMap
C39_RoomEndWitness == last.op = "close" /\ last.code = 4002 /\ ipConnections = EmptyMap
C39_HeartbeatWitness == last.op = "close" /\ last.code = 1006 /\ ipConnections = EmptyMap
C39_LifetimeWitness == last.op = "close" /\ last.code = 4005 /\ ipConnections = EmptyMap

\* a connection was refused for each reason
C39_RefusedWitness ==
    /\ last.op = "connect" /\ last.code = 4006
    /\ ConnectionsOf("10.0.0.1") = MAX_CONNECTIONS_PER_IP

(***************************************************************************)
(* SpecGrace: one room whose sockets connect and leave ten or twenty       *)
(* seconds apart, and the empty-room timers their close events arm.  No    *)
(* frame is sent, so lastActivity is the time of the last admission.       *)
(***************************************************************************)
MaxGraceSock == 3
MaxGraceTicks == 3
GraceTicks == {10000, 20000}

GraceNext ==
    \/ reqSeq < 1 /\ CreateStart("10.0.0.1", Undefined)
    \/ CreateFinish(1, RoomSalt, OneKey)
    \/ \E role \in Roles :
          sockSeq < MaxGraceSock /\ Connect(TRUE, RoomKeyParam, role, Undefined, Undefined, "10.0.0.1")
    \/ \E s \in 1..MaxGraceSock : ClientClose(s)
    \/ \E s \in 1..MaxGraceSock : CloseEvent(s)
    \/ \E t \in timers : TimerFire(t)
    \/ \E d \in GraceTicks : ticks < MaxGraceTicks /\ Tick(d)

SpecGrace == Init /\ [][GraceNext]_vars

\* when the timer was armed
ArmedAt(t) == t.at - EMPTY_GRACE_MS

(***************************************************************************)
(* C40: the empty-room grace period is measured from the most recent       *)
(* disconnect: a timer deletes the room only if both slots have been empty *)
(* since it was armed, that is, if no socket has been admitted to the room *)
(* after that moment.                                                      *)
(***************************************************************************)
C40_GraceFromLastDisconnect ==
    [][ \A t \in timers :
          (TimerFire(t) /\ t.roomKey \in DOMAIN rooms /\ t.roomKey \notin DOMAIN rooms')
          => rooms[t.roomKey].lastActivity <= ArmedAt(t) ]_vars

\* a timer has deleted the room while the timer of a later disconnect, less
\* than 30 seconds old, is still pending
C40_EarlyDeletion ==
    /\ last.op = "timer"
    /\ rooms = EmptyMap /\ reqSeq = 1 /\ hres.status = 200
    /\ \E t \in timers : t.at > now /\ ArmedAt(t) > T0

\* the timer of an earlier disconnect is due on a room that a socket was
\* admitted to after the timer was armed and that is empty again, the timer
\* of its last disconnect still running
C40_StaleTimerDue ==
    \E t \in timers, u \in timers :
        /\ now >= t.at /\ u.at > now
        /\ EmptyRoom(t.roomKey) /\ u.roomKey = t.roomKey
        /\ rooms[t.roomKey].lastActivity > ArmedAt(t)

\* the callback tests the slots when it fires: it deletes exactly the rooms
\* that are empty at that moment
C40_EmptyAtFire ==
    [][ \A t \in timers :
          TimerFire(t)
          => (t.roomKey \notin DOMAIN rooms' <=> (t.roomKey \notin DOMAIN rooms \/ EmptyRoom(t.roomKey))) ]_vars

=============================================================================
